---- MODULE Spec2Model ----
(***************************************************************************)
(* OpenRTB bid-request analyser (src/src/lib/analyzer.ts).                 *)
(*                                                                         *)
(* The module has three layers:                                            *)
(*   1. the values the engine computes on: parsed JSON values with the     *)
(*      JavaScript operations the rules use on them (property access,      *)
(*      truthiness, Array.every, ...), an exception being the value Thrown;*)
(*   2. the engine: JSON.parse, findBidRequest, the context builder, the   *)
(*      rule catalogue, the rule pass, the cross-field validators, the     *)
(*      summary and the memo cache, each translated from analyzer.ts;      *)
(*   3. the state machine: a process that calls analyse repeatedly, with   *)
(*      the module-level parseCache as its state.                          *)
(***************************************************************************)
EXTENDS Integers, Sequences, FiniteSets, TLC

(***************************************************************************)
(* 1. JavaScript values                                                    *)
(***************************************************************************)

Undefined == [t |-> "undefined"]
JNull == [t |-> "null"]
JBool(b) == [t |-> "boolean", b |-> b]
\* A number is the fraction n/d, d a power of ten (JSON has no other numbers
\* once exponents are left out); d = 1 for an integer.
JFrac(n, d) == [t |-> "number", n |-> n, d |-> d]
JNum(n) == JFrac(n, 1)
JStr(s) == [t |-> "string", s |-> s]
JArr(a) == [t |-> "array", a |-> a]
\* An object is the sequence of its <<key, value>> pairs in insertion order
\* (the order Object.keys reports for non-index keys).
JObj(o) == [t |-> "object", o |-> o]
\* The outcome of an expression that raised an exception (a TypeError).
Thrown == [t |-> "throw"]

JTrue == JBool(TRUE)
JFalse == JBool(FALSE)

IsUndefined(v) == v.t = "undefined"
IsNullish(v) == v.t \in {"undefined", "null"}
IsThrown(v) == v.t = "throw"
IsArray(v) == v.t = "array"
IsObject(v) == v.t = "object"
IsStringV(v) == v.t = "string"
IsNumber(v) == v.t = "number"

\* ToBoolean: false, 0, "", null and undefined are falsy.
Truthy(v) ==
  CASE v.t = "undefined" -> FALSE
    [] v.t = "null" -> FALSE
    [] v.t = "boolean" -> v.b
    [] v.t = "number" -> v.n # 0
    [] v.t = "string" -> v.s # ""
    [] OTHER -> TRUE

\* typeof v
TypeOf(v) == IF v.t \in {"array", "null"} THEN "object" ELSE v.t

\* a === b for the operand kinds the rules compare (primitives).
StrictEq(a, b) ==
  /\ a.t = b.t
  /\ CASE a.t = "number" -> a.n * b.d = b.n * a.d
       [] a.t = "string" -> a.s = b.s
       [] a.t = "boolean" -> a.b = b.b
       [] a.t \in {"undefined", "null"} -> TRUE
       [] OTHER -> a = b

RECURSIVE LookupKey(_, _, _)
LookupKey(o, k, i) ==
  IF i > Len(o) THEN Undefined
  ELSE IF o[i][1] = k THEN o[i][2] ELSE LookupKey(o, k, i + 1)

\* v.k : a TypeError on undefined and null, the own property of an object,
\* undefined on every other value (no rule reads an inherited property by
\* this route; length and the array methods have their own operators).
Get(v, k) ==
  CASE IsThrown(v) -> Thrown
    [] IsNullish(v) -> Thrown
    [] IsObject(v) -> LookupKey(v.o, k, 1)
    [] OTHER -> Undefined

\* v?.k
OptGet(v, k) ==
  CASE IsThrown(v) -> Thrown
    [] IsNullish(v) -> Undefined
    [] OTHER -> Get(v, k)

\* The order in which the own keys of an object are enumerated
\* (Object.keys, JSON.stringify): the integer-index keys in ascending numeric
\* order, then the other keys in insertion order.  o holds the members in
\* insertion order.
Digits == {"0", "1", "2", "3", "4", "5", "6", "7", "8", "9"}

DigitVal(c) ==
  CASE c = "0" -> 0 [] c = "1" -> 1 [] c = "2" -> 2 [] c = "3" -> 3
    [] c = "4" -> 4 [] c = "5" -> 5 [] c = "6" -> 6 [] c = "7" -> 7
    [] c = "8" -> 8 [] OTHER -> 9

\* a < b for numerals of one length, decided at the first differing digit.
RECURSIVE NumeralLess(_, _, _)
NumeralLess(a, b, i) ==
  IF i > Len(a) THEN FALSE
  ELSE IF SubSeq(a, i, i) = SubSeq(b, i, i) THEN NumeralLess(a, b, i + 1)
  ELSE DigitVal(SubSeq(a, i, i)) < DigitVal(SubSeq(b, i, i))

IndexLess(a, b) == Len(a) < Len(b) \/ (Len(a) = Len(b) /\ NumeralLess(a, b, 1))

\* A canonical numeral below 2^32 - 1.
IsIndexKey(k) ==
  /\ k # ""
  /\ \A i \in 1..Len(k) : SubSeq(k, i, i) \in Digits
  /\ (Len(k) > 1 => SubSeq(k, 1, 1) # "0")
  /\ IndexLess(k, "4294967295")

RECURSIVE IndexMembers(_, _, _)
IndexMembers(o, i, sorted) ==
  IF i > Len(o) THEN sorted
  ELSE IF ~IsIndexKey(o[i][1]) THEN IndexMembers(o, i + 1, sorted)
  ELSE IndexMembers(o, i + 1,
         SelectSeq(sorted, LAMBDA m : IndexLess(m[1], o[i][1]))
         \o <<o[i]>>
         \o SelectSeq(sorted, LAMBDA m : ~IndexLess(m[1], o[i][1])))

OwnMembers(o) ==
  IF \A i \in 1..Len(o) : ~IsIndexKey(o[i][1]) THEN o
  ELSE IndexMembers(o, 1, <<>>) \o SelectSeq(o, LAMBDA m : ~IsIndexKey(m[1]))

\* Object.keys(v) of an object or array, as the sequence of child values
\* in key order (what findBidRequest iterates).
ChildValues(v) ==
  CASE IsObject(v) -> [i \in 1..Len(v.o) |-> OwnMembers(v.o)[i][2]]
    [] IsArray(v) -> v.a
    [] OTHER -> <<>>

(***************************************************************************)
(* Strings: a JavaScript string is a TLA+ string; Ch reads one character.  *)
(***************************************************************************)

Ch(s, i) == IF i >= 1 /\ i <= Len(s) THEN SubSeq(s, i, i) ELSE ""

Whitespace == {" ", "\t", "\n", "\r"}

\* s.trim() !== ''
RECURSIVE HasNonSpace(_, _)
HasNonSpace(s, i) ==
  IF i > Len(s) THEN FALSE
  ELSE IF Ch(s, i) \notin Whitespace THEN TRUE ELSE HasNonSpace(s, i + 1)

\* s.includes(sub)
StrIncludes(s, sub) ==
  \E i \in 1..(Len(s) - Len(sub) + 1) : SubSeq(s, i, i + Len(sub) - 1) = sub

\* The concatenation of the strings piece[lo..hi], by halving the range.
RECURSIVE ConcatRange(_, _, _)
ConcatRange(piece, lo, hi) ==
  IF lo > hi THEN ""
  ELSE IF lo = hi THEN piece[lo]
  ELSE LET mid == (lo + hi) \div 2 IN
       ConcatRange(piece, lo, mid) \o ConcatRange(piece, mid + 1, hi)

StrEndsWith(s, suf) ==
  Len(suf) <= Len(s) /\ SubSeq(s, Len(s) - Len(suf) + 1, Len(s)) = suf

(***************************************************************************)
(* 2a. JSON.parse (the built-in behind safeJsonParse).  Grammar: objects,  *)
(* arrays, strings with the escapes \" \\ \/ \n \t \r, true, false, null,  *)
(* and numbers with an optional sign and fraction (no exponent).  A parse  *)
(* step returns [ok, v, i] (value and the position after it) or           *)
(* [ok |-> FALSE, msg] with the parser's diagnostic.                       *)
(***************************************************************************)

RECURSIVE SkipWs(_, _)
SkipWs(s, i) == IF Ch(s, i) \in Whitespace THEN SkipWs(s, i + 1) ELSE i

ParseErr(s, i) ==
  [ok |-> FALSE,
   msg |-> IF i > Len(s) THEN "Unexpected end of JSON input"
           ELSE "Unexpected token " \o Ch(s, i) \o " in JSON at position "
                \o ToString(i - 1)]

ParseOk(v, i) == [ok |-> TRUE, v |-> v, i |-> i]

\* Inside a string literal whose body starts at position i, the character
\* at j is the second half of an escape when an odd number of backslashes
\* directly precedes it.
Escaped(s, i, j) ==
  /\ j > i
  /\ Ch(s, j - 1) = "\\"
  /\ LET before == CHOOSE k \in (i - 1)..(j - 1) :
                     /\ k = i - 1 \/ Ch(s, k) # "\\"
                     /\ \A m \in (k + 1)..(j - 1) : Ch(s, m) = "\\"
     IN (j - 1 - before) % 2 = 1

\* Where the scan of a string literal's body stops: at the closing quote, a
\* raw control character, a character that no escape allows, or the end of
\* the input.
StringStop(s, i) ==
  LET stops == {j \in i..Len(s) :
                  IF Escaped(s, i, j)
                  THEN Ch(s, j) \notin {"\"", "\\", "/", "n", "t", "r"}
                  ELSE Ch(s, j) \in {"\"", "\n", "\t", "\r"}}
  IN IF stops = {} THEN Len(s) + 1
     ELSE CHOOSE j \in stops : \A k \in stops : j <= k

\* What the character at j contributes to the decoded string.
DecodedChar(s, i, j) ==
  LET c == Ch(s, j) IN
  IF Escaped(s, i, j)
  THEN CASE c = "n" -> "\n" [] c = "t" -> "\t" [] c = "r" -> "\r" [] OTHER -> c
  ELSE IF c = "\\" THEN "" ELSE c

\* Characters of a string literal from position i (after the opening quote):
\* the decoded text and the position after the closing quote.
ParseChars(s, i) ==
  LET Upto(stop) ==
        IF stop > Len(s) \/ Ch(s, stop) # "\"" \/ Escaped(s, i, stop)
        THEN ParseErr(s, stop)
        ELSE ParseOk(ConcatRange([j \in i..(stop - 1) |-> DecodedChar(s, i, j)],
                                 i, stop - 1),
                     stop + 1)
  IN Upto(StringStop(s, i))

\* Digits from position i: [n, len] the value and the number of digits read.
RECURSIVE ParseDigits(_, _, _, _)
ParseDigits(s, i, n, len) ==
  IF Ch(s, i) \in Digits
  THEN ParseDigits(s, i + 1, n * 10 + DigitVal(Ch(s, i)), len + 1)
  ELSE [n |-> n, len |-> len]

RECURSIVE Pow10(_)
Pow10(k) == IF k = 0 THEN 1 ELSE 10 * Pow10(k - 1)

ParseNumber(s, i) ==
  LET Fraction(sgn, int, k, fr) ==
        IF fr.len = 0 THEN ParseErr(s, k + 1)
        ELSE IF fr.n = 0 THEN ParseOk(JNum(sgn * int.n), k + 1 + fr.len)
        ELSE ParseOk(JFrac(sgn * (int.n * Pow10(fr.len) + fr.n), Pow10(fr.len)),
                     k + 1 + fr.len)
      Integer(sgn, j, int, k) ==
        IF int.len = 0 THEN ParseErr(s, j)
        ELSE IF int.len > 1 /\ Ch(s, j) = "0" THEN ParseErr(s, j + 1)
        ELSE IF Ch(s, k) = "." THEN Fraction(sgn, int, k, ParseDigits(s, k + 1, 0, 0))
        ELSE ParseOk(JNum(sgn * int.n), k)
      Unsigned(sgn, j, int) == Integer(sgn, j, int, j + int.len)
      Signed(sgn, j) == Unsigned(sgn, j, ParseDigits(s, j, 0, 0))
  IN IF Ch(s, i) = "-" THEN Signed(-1, i + 1) ELSE Signed(1, i)

\* obj[k] = v on a parsed object: a repeated key keeps its first position and
\* takes the last value.
PutKey(o, k, v) ==
  IF \E i \in 1..Len(o) : o[i][1] = k
  THEN [i \in 1..Len(o) |-> IF o[i][1] = k THEN <<k, v>> ELSE o[i]]
  ELSE Append(o, <<k, v>>)

ParseLiteral(s, i, word, v) ==
  IF SubSeq(s, i, i + Len(word) - 1) = word /\ i + Len(word) - 1 <= Len(s)
  THEN ParseOk(v, i + Len(word))
  ELSE ParseErr(s, i)

RECURSIVE ParseValue(_, _)
RECURSIVE ParseElements(_, _, _)
RECURSIVE ParseMembers(_, _, _)

\* Array elements from position i (after "[" or ","), acc the elements so far.
ParseElements(s, i, acc) ==
  LET Separator(r, j) ==
        CASE Ch(s, j) = "," /\ j <= Len(s) -> ParseElements(s, j + 1, Append(acc, r.v))
          [] Ch(s, j) = "]" /\ j <= Len(s) -> ParseOk(JArr(Append(acc, r.v)), j + 1)
          [] OTHER -> ParseErr(s, j)
      Element(r) == IF ~r.ok THEN r ELSE Separator(r, SkipWs(s, r.i))
  IN Element(ParseValue(s, i))

\* Object members from position i (after "{" or ","), acc the pairs so far.
ParseMembers(s, i, acc) ==
  LET Separator(e, o) ==
        CASE Ch(s, e) = "," /\ e <= Len(s) -> ParseMembers(s, e + 1, o)
          [] Ch(s, e) = "}" /\ e <= Len(s) -> ParseOk(JObj(o), e + 1)
          [] OTHER -> ParseErr(s, e)
      Member(k, r) ==
        IF ~r.ok THEN r ELSE Separator(SkipWs(s, r.i), PutKey(acc, k.v, r.v))
      Colon(k, c) ==
        IF Ch(s, c) # ":" \/ c > Len(s) THEN ParseErr(s, c)
        ELSE Member(k, ParseValue(s, c + 1))
      Key(k) == IF ~k.ok THEN k ELSE Colon(k, SkipWs(s, k.i))
      Opening(j) ==
        IF Ch(s, j) # "\"" \/ j > Len(s) THEN ParseErr(s, j)
        ELSE Key(ParseChars(s, j + 1))
  IN Opening(SkipWs(s, i))

ParseValue(s, i0) ==
  LET Object(i, j) ==
        IF Ch(s, j) = "}" /\ j <= Len(s) THEN ParseOk(JObj(<<>>), j + 1)
        ELSE ParseMembers(s, i + 1, <<>>)
      Array(i, j) ==
        IF Ch(s, j) = "]" /\ j <= Len(s) THEN ParseOk(JArr(<<>>), j + 1)
        ELSE ParseElements(s, i + 1, <<>>)
      String(r) == IF r.ok THEN ParseOk(JStr(r.v), r.i) ELSE r
      At(i, c) ==
        IF i > Len(s) THEN ParseErr(s, i)
        ELSE
        CASE c = "{" -> Object(i, SkipWs(s, i + 1))
          [] c = "[" -> Array(i, SkipWs(s, i + 1))
          [] c = "\"" -> String(ParseChars(s, i + 1))
          [] c = "t" -> ParseLiteral(s, i, "true", JTrue)
          [] c = "f" -> ParseLiteral(s, i, "false", JFalse)
          [] c = "n" -> ParseLiteral(s, i, "null", JNull)
          [] c = "-" \/ c \in Digits -> ParseNumber(s, i)
          [] OTHER -> ParseErr(s, i)
      From(i) == At(i, Ch(s, i))
  IN From(SkipWs(s, i0))

\* JSON.parse(txt): the value, or the SyntaxError's message.
JSONparse(txt) ==
  LET AtEnd(r, j) ==
        IF j <= Len(txt) THEN ParseErr(txt, j) ELSE [ok |-> TRUE, v |-> r.v]
      Parsed(r) == IF ~r.ok THEN r ELSE AtEnd(r, SkipWs(txt, r.i))
  IN Parsed(ParseValue(txt, 1))

\* safeJsonParse: { ok: true, value } or { ok: false, error }.
safeJsonParse(txt) ==
  LET Result(r) == IF r.ok THEN [ok |-> TRUE, value |-> r.v]
                   ELSE [ok |-> FALSE, error |-> r.msg]
  IN Result(JSONparse(txt))

(***************************************************************************)
(* 1b. JavaScript operators on values.  Every operator is total: an        *)
(* operand that is Thrown, or an operation that raises a TypeError, gives  *)
(* Thrown, so an exception propagates to whoever catches it.               *)
(***************************************************************************)

\* !v and !!v
Bang(v) == IF IsThrown(v) THEN Thrown ELSE JBool(~Truthy(v))
BangBang(v) == IF IsThrown(v) THEN Thrown ELSE JBool(Truthy(v))

\* a && b and a || b (b is evaluated only when a does not decide)
And2(a, b) == IF IsThrown(a) THEN Thrown ELSE IF Truthy(a) THEN b ELSE a
Or2(a, b) == IF IsThrown(a) THEN Thrown ELSE IF Truthy(a) THEN a ELSE b
And3(a, b, c) == And2(And2(a, b), c)
Or3(a, b, c) == Or2(Or2(a, b), c)
Or4(a, b, c, d) == Or2(Or3(a, b, c), d)

\* a === b, a !== b
SEq(a, b) ==
  IF IsThrown(a) \/ IsThrown(b) THEN Thrown ELSE JBool(StrictEq(a, b))
SNe(a, b) == Bang(SEq(a, b))

IsArr(v) == IF IsThrown(v) THEN Thrown ELSE JBool(IsArray(v))
TypeIs(v, ty) == IF IsThrown(v) THEN Thrown ELSE JBool(TypeOf(v) = ty)

\* Number.isInteger(v)
IsInteger(v) ==
  IF IsThrown(v) THEN Thrown
  ELSE JBool(IsNumber(v) /\ v.n % v.d = 0)

\* v.length
LengthOf(v) ==
  CASE IsThrown(v) -> Thrown
    [] IsNullish(v) -> Thrown
    [] IsArray(v) -> JNum(Len(v.a))
    [] IsStringV(v) -> JNum(Len(v.s))
    [] IsObject(v) -> LookupKey(v.o, "length", 1)
    [] OTHER -> Undefined

\* Decimal digits of a natural number, padded with zeros to k digits.
RECURSIVE PadDigits(_, _)
PadDigits(n, k) ==
  IF k = 0 THEN ""
  ELSE PadDigits(n \div 10, k - 1) \o ToString(n % 10)

RECURSIVE StripZeros(_)
StripZeros(s) ==
  IF s # "" /\ Ch(s, Len(s)) = "0" THEN StripZeros(SubSeq(s, 1, Len(s) - 1))
  ELSE s

RECURSIVE Log10(_)
Log10(d) == IF d <= 1 THEN 0 ELSE 1 + Log10(d \div 10)

Abs(n) == IF n < 0 THEN -n ELSE n

\* String(v) of a number
NumToString(v) ==
  LET a == Abs(v.n)
      fr == StripZeros(PadDigits(a % v.d, Log10(v.d)))
  IN (IF v.n < 0 THEN "-" ELSE "") \o ToString(a \div v.d)
     \o (IF fr = "" THEN "" ELSE "." \o fr)

RECURSIVE ToStringJS(_)
RECURSIVE JoinFrom(_, _)
\* a.join(",") from element i on
JoinFrom(a, i) ==
  IF i > Len(a) THEN ""
  ELSE (IF IsNullish(a[i]) THEN "" ELSE ToStringJS(a[i]))
       \o (IF i < Len(a) THEN "," ELSE "") \o JoinFrom(a, i + 1)

\* String(v): the coercion RegExp.test, JSON.parse and property keys apply.
ToStringJS(v) ==
  CASE v.t = "string" -> v.s
    [] v.t = "number" -> NumToString(v)
    [] v.t = "boolean" -> IF v.b THEN "true" ELSE "false"
    [] v.t = "null" -> "null"
    [] v.t = "undefined" -> "undefined"
    [] v.t = "array" -> JoinFrom(v.a, 1)
    [] OTHER -> "[object Object]"

NaN == [t |-> "number", n |-> 0, d |-> 0]
IsNaN(v) == v.t = "number" /\ v.d = 0

SignedDigits(s) ==
  LET r == ParseNumber(s, 1) IN
  IF r.ok /\ r.i = Len(s) + 1 THEN r.v ELSE NaN

RECURSIVE TrimLeft(_)
TrimLeft(s) ==
  IF s # "" /\ Ch(s, 1) \in Whitespace THEN TrimLeft(SubSeq(s, 2, Len(s))) ELSE s

RECURSIVE TrimRight(_)
TrimRight(s) ==
  IF s # "" /\ Ch(s, Len(s)) \in Whitespace
  THEN TrimRight(SubSeq(s, 1, Len(s) - 1)) ELSE s

\* Number(v): ToNumber, for the decimal numerals the JSON grammar above has.
ToNumber(v) ==
  CASE v.t = "number" -> v
    [] v.t = "null" -> JNum(0)
    [] v.t = "undefined" -> NaN
    [] v.t = "boolean" -> IF v.b THEN JNum(1) ELSE JNum(0)
    [] OTHER ->
         LET s == TrimRight(TrimLeft(ToStringJS(v))) IN
         IF s = "" THEN JNum(0) ELSE SignedDigits(s)

\* a < b on numbers (false when either is NaN)
NumLess(x, y) == ~IsNaN(x) /\ ~IsNaN(y) /\ x.n * y.d < y.n * x.d

\* a > b, a >= b, a < b, a <= b.  Two strings compare as strings in
\* JavaScript; no rule compares two strings.
Gt(a, b) ==
  IF IsThrown(a) \/ IsThrown(b) THEN Thrown
  ELSE JBool(NumLess(ToNumber(b), ToNumber(a)))
Lt(a, b) == Gt(b, a)
Ge(a, b) ==
  IF IsThrown(a) \/ IsThrown(b) THEN Thrown
  ELSE LET x == ToNumber(a)
           y == ToNumber(b)
       IN JBool(~IsNaN(x) /\ ~IsNaN(y) /\ ~NumLess(x, y))
Le(a, b) == Ge(b, a)

\* a - b
Minus(a, b) ==
  IF IsThrown(a) \/ IsThrown(b) THEN Thrown
  ELSE LET x == ToNumber(a)
           y == ToNumber(b)
       IN IF IsNaN(x) \/ IsNaN(y) THEN NaN
          ELSE JFrac(x.n * y.d - y.n * x.d, x.d * y.d)

\* A loop that looks at its first element only.
FirstStopAtHead(r, stop) ==
  IF Len(r) > 0 /\ (IsThrown(r[1]) \/ Truthy(r[1]) = stop) THEN 1 ELSE 0

\* The first element of results that stops a loop: one that is Thrown or
\* whose truth value is `stop`; 0 when there is none.
FirstStop(r, stop) ==
  LET S == {i \in 1..Len(r) : IsThrown(r[i]) \/ Truthy(r[i]) = stop} IN
  IF S = {} THEN 0 ELSE CHOOSE i \in S : \A j \in S : i <= j

\* v.every(P): a TypeError unless v is an array (undefined.every, or a
\* non-array whose .every is undefined); stops at the first falsy result.
Every(v, P(_)) ==
  IF ~IsArray(v) THEN Thrown
  ELSE LET r == [i \in 1..Len(v.a) |-> P(v.a[i])]
           m == FirstStop(r, FALSE)
       IN IF m = 0 THEN JTrue ELSE IF IsThrown(r[m]) THEN Thrown ELSE JFalse

\* v.some(P): stops at the first truthy result.
Some(v, P(_)) ==
  IF ~IsArray(v) THEN Thrown
  ELSE LET r == [i \in 1..Len(v.a) |-> P(v.a[i])]
           m == FirstStop(r, TRUE)
       IN IF m = 0 THEN JFalse ELSE IF IsThrown(r[m]) THEN Thrown ELSE JTrue

\* v.includes(x): Array.prototype.includes (same-value-zero on the
\* primitives the rules look for), String.prototype.includes (x coerced to
\* a string); a TypeError on every other value, which has no .includes.
Includes(v, x) ==
  CASE IsThrown(v) -> Thrown
    [] IsArray(v) -> JBool(\E i \in 1..Len(v.a) : StrictEq(v.a[i], x))
    [] IsStringV(v) -> JBool(StrIncludes(v.s, ToStringJS(x)))
    [] OTHER -> Thrown

\* isString, isNonEmptyString
isString(v) == IsStringV(v)
isNonEmptyString(v) ==
  IF IsThrown(v) THEN Thrown
  ELSE JBool(isString(v) /\ HasNonSpace(v.s, 1))

(***************************************************************************)
(* 2b. Pre-compiled patterns and lookup tables                             *)
(***************************************************************************)

Lower == {"a", "b", "c", "d", "e", "f", "g", "h", "i", "j", "k", "l", "m",
          "n", "o", "p", "q", "r", "s", "t", "u", "v", "w", "x", "y", "z"}
Upper == {"A", "B", "C", "D", "E", "F", "G", "H", "I", "J", "K", "L", "M",
          "N", "O", "P", "Q", "R", "S", "T", "U", "V", "W", "X", "Y", "Z"}
HexDigits == Digits \cup {"a", "b", "c", "d", "e", "f", "A", "B", "C", "D", "E", "F"}
AlphaNum == Lower \cup Upper \cup Digits

\* Every character of s is in class C.
AllIn(s, C) == \A i \in 1..Len(s) : Ch(s, i) \in C

StartsWith(s, p) == Len(p) <= Len(s) /\ SubSeq(s, 1, Len(p)) = p

\* s.split(sep) for a one-character separator
RECURSIVE SplitFrom(_, _, _, _)
SplitFrom(s, sep, i, cur) ==
  IF i > Len(s) THEN <<cur>>
  ELSE IF Ch(s, i) = sep THEN <<cur>> \o SplitFrom(s, sep, i + 1, "")
  ELSE SplitFrom(s, sep, i + 1, cur \o Ch(s, i))

SplitOn(s, sep) == SplitFrom(s, sep, 1, "")

\* 25[0-5]|2[0-4][0-9]|[01]?[0-9][0-9]?
Octet(p) ==
  /\ Len(p) \in 1..3
  /\ AllIn(p, Digits)
  /\ Len(p) = 3 =>
       \/ Ch(p, 1) \in {"0", "1"}
       \/ Ch(p, 1) = "2" /\ Ch(p, 2) \in {"0", "1", "2", "3", "4"}
       \/ Ch(p, 1) = "2" /\ Ch(p, 2) = "5" /\ Ch(p, 3) \in {"0", "1", "2", "3", "4", "5"}

\* IPV4_REGEX: ^(?:octet\.){3}octet$
IPV4_REGEX(s) ==
  LET parts == SplitOn(s, ".") IN
  Len(parts) = 4 /\ \A i \in 1..4 : Octet(parts[i])

\* IPV6_REGEX: ^(?:[0-9a-fA-F]{1,4}:){7}[0-9a-fA-F]{1,4}$|^::1$|^::$
IPV6_REGEX(s) ==
  LET parts == SplitOn(s, ":") IN
  \/ Len(parts) = 8 /\ \A i \in 1..8 : Len(parts[i]) \in 1..4 /\ AllIn(parts[i], HexDigits)
  \/ s = "::1"
  \/ s = "::"

\* The end of the run of characters of class C that starts at position i
\* (the position after its last character).
\* The position after the run of class-C characters that starts at i.
RunEnd(s, i, C) ==
  LET ends == {j \in i..Len(s) : Ch(s, j) \notin C} IN
  IF ends = {} THEN IF i > Len(s) THEN i ELSE Len(s) + 1
  ELSE CHOOSE j \in ends : \A k \in ends : j <= k

\* MACRO_REGEX: [\{\[][a-zA-Z_][a-zA-Z0-9_]*[\}\]] found anywhere in s
MACRO_REGEX(s) ==
  \E i \in 1..Len(s) :
    /\ Ch(s, i) \in {"{", "["}
    /\ Ch(s, i + 1) \in Lower \cup Upper \cup {"_"}
    /\ Ch(s, RunEnd(s, i + 2, AlphaNum \cup {"_"})) \in {"}", "]"}

\* RegExp.prototype.test coerces its argument to a string.
isValidIPv4(ip) == IF IsThrown(ip) THEN Thrown ELSE JBool(IPV4_REGEX(ToStringJS(ip)))
isValidIPv6(ip) == IF IsThrown(ip) THEN Thrown ELSE JBool(IPV6_REGEX(ToStringJS(ip)))
containsMacros(text) ==
  IF IsThrown(text) THEN Thrown ELSE JBool(MACRO_REGEX(ToStringJS(text)))

\* ip.endsWith('.0') || ip.includes('xxx') || ip.includes('***'): only a
\* string has endsWith.
isTruncatedIP(ip) ==
  IF ~IsStringV(ip) THEN Thrown
  ELSE JBool(StrEndsWith(ip.s, ".0") \/ StrIncludes(ip.s, "xxx") \/ StrIncludes(ip.s, "***"))

\* ipv6.includes('::') && ipv6.length < 15
isTruncatedIPv6(ipv6) ==
  And2(Includes(ipv6, JStr("::")), Lt(LengthOf(ipv6), JNum(15)))

\* The length of the run of characters of class C that ends s.
RECURSIVE TailRun(_, _)
TailRun(s, C) ==
  IF s # "" /\ Ch(s, Len(s)) \in C THEN 1 + TailRun(SubSeq(s, 1, Len(s) - 1), C) ELSE 0

NoLineBreak(s) == \A i \in 1..Len(s) : Ch(s, i) \notin {"\n", "\r"}

NoMatch == [m |-> FALSE, id |-> ""]
Matched(id) == [m |-> TRUE, id |-> id]

\* s = prefix ++ id with id a non-empty run of class C: ^prefix(C+)$
PrefixThenRun(s, prefix, C) ==
  LET id == SubSeq(s, Len(prefix) + 1, Len(s)) IN
  IF StartsWith(s, prefix) /\ id # "" /\ AllIn(id, C) THEN Matched(id) ELSE NoMatch

\* ^https:\/\/apps\.apple\.com\/.*\/app\/.*\/id(\d+)$
StoreIos1(s) ==
  LET k == TailRun(s, Digits)
      y == SubSeq(s, 1, Len(s) - k - 3)
      pre == "https://apps.apple.com/"
  IN
  IF /\ k >= 1
     /\ Len(s) - k >= 3
     /\ SubSeq(s, Len(s) - k - 2, Len(s) - k) = "/id"
     /\ StartsWith(y, pre)
     /\ NoLineBreak(s)
     /\ \E p \in (Len(pre) + 1)..(Len(y) - 4) : SubSeq(y, p, p + 4) = "/app/"
  THEN Matched(SubSeq(s, Len(s) - k + 1, Len(s)))
  ELSE NoMatch

\* ^https:\/\/apps\.apple\.com\/app\/id(\d+)$
StoreIos2(s) == PrefixThenRun(s, "https://apps.apple.com/app/id", Digits)

\* ^https:\/\/apps\.apple\.com\/us\/app\/id(\d+)$
StoreIos3(s) == PrefixThenRun(s, "https://apps.apple.com/us/app/id", Digits)

\* ^https:\/\/play\.google\.com\/store\/apps\/details\?id=([a-zA-Z0-9._]+)$
StoreAndroid(s) ==
  PrefixThenRun(s, "https://play.google.com/store/apps/details?id=", AlphaNum \cup {".", "_"})

\* ^https:\/\/channelstore\.roku\.com\/details\/([a-zA-Z0-9]+)\/.*$
StoreRoku1(s) ==
  LET pre == "https://channelstore.roku.com/details/"
      e == RunEnd(s, Len(pre) + 1, AlphaNum)
  IN
  IF StartsWith(s, pre) /\ e > Len(pre) + 1 /\ Ch(s, e) = "/"
     /\ NoLineBreak(SubSeq(s, e + 1, Len(s)))
  THEN Matched(SubSeq(s, Len(pre) + 1, e - 1))
  ELSE NoMatch

\* ^https:\/\/channelstore\.roku\.com\/details\/(\d+)\/?$
StoreRoku2(s) ==
  LET pre == "https://channelstore.roku.com/details/"
      e == RunEnd(s, Len(pre) + 1, Digits)
  IN
  IF StartsWith(s, pre) /\ e > Len(pre) + 1
     /\ (e = Len(s) + 1 \/ (e = Len(s) /\ Ch(s, e) = "/"))
  THEN Matched(SubSeq(s, Len(pre) + 1, e - 1))
  ELSE NoMatch

\* bundlePattern /^\d+$/ and /^[a-zA-Z0-9._]+$/
BundleDigits(s) == s # "" /\ AllIn(s, Digits)
BundleDotted(s) == s # "" /\ AllIn(s, AlphaNum \cup {".", "_"})

\* STORE_URL_MAP in insertion order: per platform, the matches of its
\* patterns on url (in order) and whether its bundlePattern accepts bundle.
STORE_URL_MAP(url, bundle) ==
  << [platform |-> "ios",
      matches |-> <<StoreIos1(url), StoreIos2(url), StoreIos3(url)>>,
      bundleOk |-> BundleDigits(bundle)],
     [platform |-> "android",
      matches |-> <<StoreAndroid(url)>>,
      bundleOk |-> BundleDotted(bundle)],
     [platform |-> "roku",
      matches |-> <<StoreRoku1(url), StoreRoku2(url)>>,
      bundleOk |-> BundleDigits(bundle)] >>

\* DATA_CENTER_MAP: datacenter id -> continent ("" for the null continent)
DATA_CENTER_MAP ==
  (2 :> "") @@ (3 :> "Europe") @@ (4 :> "Europe") @@ (5 :> "Americas")
  @@ (10 :> "Americas") @@ (11 :> "Europe") @@ (12 :> "Americas")
  @@ (13 :> "Asia") @@ (14 :> "Europe") @@ (16 :> "Americas")

COUNTRY_CONTINENT_MAP ==
  [c \in {"USA", "DEU", "FRA", "GBR", "CHN", "JPN"} |->
     CASE c = "USA" -> "Americas"
       [] c \in {"DEU", "FRA", "GBR"} -> "Europe"
       [] OTHER -> "Asia"]

\* DEVICE_TYPE, keyed by the property key (a string)
DEVICE_TYPE ==
  [k \in {"1", "2", "3", "4", "5", "6", "7"} |->
     CASE k = "1" -> "Mobile/Tablet"
       [] k = "2" -> "PC"
       [] k = "3" -> "Connected TV"
       [] k = "4" -> "Phone"
       [] k = "5" -> "Tablet"
       [] k = "6" -> "Connected Device"
       [] OTHER -> "Set-top Box"]

\* Severity
ERROR == "error"
WARNING == "warning"
INFO == "info"

\* An optional string field that is absent (path, specRef, error).
Absent == "(absent)"

Issue(id, severity, message, path, specRef) ==
  [id |-> id, severity |-> severity, message |-> message, path |-> path,
   specRef |-> specRef]

(***************************************************************************)
(* 2c. findBidRequest: depth-first search for the first object with a      *)
(* string id and an array imp; null when there is none.                    *)
(***************************************************************************)

RECURSIVE findBidRequest(_)
RECURSIVE findInChildren(_, _)
RECURSIVE findInChildrenReversed(_, _)

\* The loop run from the last key to the first.
findInChildrenReversed(kids, i) ==
  IF i > Len(kids) THEN JNull
  ELSE LET found == findBidRequest(kids[Len(kids) + 1 - i]) IN
       IF Truthy(found) THEN found ELSE findInChildrenReversed(kids, i + 1)

\* The for-loop over Object.keys(obj): the first child with a result.
findInChildren(kids, i) ==
  IF i > Len(kids) THEN JNull
  ELSE LET found == findBidRequest(kids[i]) IN
       IF Truthy(found) THEN found ELSE findInChildren(kids, i + 1)

findBidRequest(obj) ==
  IF Truthy(obj) /\ TypeOf(obj) = "object"
  THEN IF TypeOf(Get(obj, "id")) = "string" /\ IsArray(Get(obj, "imp"))
       THEN obj
       ELSE findInChildren(ChildValues(obj), 1)
  ELSE JNull

(***************************************************************************)
(* 2d. The rule catalogue.  A rule set is an operator of the context that  *)
(* yields its rules in declaration order; a rule carries its metadata, and *)
(* the values its applies and validate functions yield on that context     *)
(* (Thrown when the function raises).  Which of them the engine calls, and *)
(* in what order, is decided by the rule pass (RunRule), not here.  The    *)
(* section sign and the greater-or-equal sign of the descriptions are      *)
(* written "sec." and ">=".                                                *)
(***************************************************************************)

Rule(id, description, severity, path, specRef, applies, validate) ==
  [id |-> id, description |-> description, severity |-> severity,
   path |-> path, specRef |-> specRef, hasApplies |-> TRUE,
   applies |-> applies, validate |-> validate]

\* A rule declared without an applies function.
RuleAlways(id, description, severity, path, specRef, validate) ==
  [id |-> id, description |-> description, severity |-> severity,
   path |-> path, specRef |-> specRef, hasApplies |-> FALSE,
   applies |-> Undefined, validate |-> validate]

\* inventory.has(kind)
Has(ctx, kind) == JBool(\E i \in 1..Len(ctx.inventory) : ctx.inventory[i] = kind)

\* if (c) return a; return b;
If(c, a, b) == IF IsThrown(c) THEN Thrown ELSE IF Truthy(c) THEN a ELSE b

IsUndef(v) == SEq(v, Undefined)
IsDef(v) == SNe(v, Undefined)
\* v === 0 || v === 1
Is01(v) == Or2(SEq(v, JNum(0)), SEq(v, JNum(1)))
\* Array.isArray(v) && v.length > 0
NonEmptyArr(v) == And2(IsArr(v), Gt(LengthOf(v), JNum(0)))

\* if (!Array.isArray(root.imp)) return true; return root.imp.every(P)
ImpEvery(root, P(_)) ==
  LET imps == Get(root, "imp") IN
  If(Bang(IsArr(imps)), JTrue, Every(imps, P))

\* Number of truthy values in a sequence of values.
RECURSIVE CountTruthy(_)
CountTruthy(vs) ==
  IF vs = <<>> THEN 0
  ELSE (IF Truthy(Head(vs)) THEN 1 ELSE 0) + CountTruthy(Tail(vs))

\* Core-Imp-001's callback run over the array: element i passes when its id
\* is a non-empty string that no earlier element carried.
UniqueIds(imps) ==
  LET r == [i \in 1..Len(imps.a) |->
              LET id == Get(imps.a[i], "id") IN
              If(Bang(isNonEmptyString(id)), JFalse,
                 JBool(\A j \in 1..(i - 1) : ~StrictEq(Get(imps.a[j], "id"), id)))]
      m == FirstStop(r, FALSE)
  IN IF m = 0 THEN JTrue ELSE IF IsThrown(r[m]) THEN Thrown ELSE JFalse

\* new Set() filled by forEach with the truthy values of key; size <= 1.
\* Set membership is same-value-zero: two parsed objects are never the same.
AtMostOneDistinct(imps, key) ==
  LET r == [i \in 1..Len(imps.a) |-> Get(imps.a[i], key)]
      T == {i \in 1..Len(r) : ~IsThrown(r[i]) /\ Truthy(r[i])}
  IN IF \E i \in 1..Len(r) : IsThrown(r[i]) THEN Thrown
     ELSE JBool(\A i, j \in T :
                  i = j \/ (r[i].t \notin {"object", "array"} /\ StrictEq(r[i], r[j])))

coreRules(ctx) ==
  LET root == ctx.root
      hasRoot == BangBang(root)
      app == Get(root, "app")
      site == Get(root, "site")
      ext == Get(root, "ext")
  IN
  << RuleAlways("missing-request", "No valid OpenRTB bid request found.", ERROR,
       Absent, Absent, BangBang(root)),
     Rule("Core-BR-001", "BidRequest.id must be present and be a non-empty string", ERROR,
       "BidRequest.id", "OpenRTB 2.6 sec. 3.2.1", hasRoot,
       isNonEmptyString(Get(root, "id"))),
     Rule("Core-BR-003", "BidRequest.imp must be a non-empty array", ERROR,
       "BidRequest.imp", "OpenRTB 2.6 sec. 3.2.1", hasRoot,
       NonEmptyArr(Get(root, "imp"))),
     Rule("Core-BR-004", "BidRequest.at (auction type) must be present and be an integer", ERROR,
       "BidRequest.at", "OpenRTB 2.6 sec. 3.2.1", hasRoot,
       IsInteger(Get(root, "at"))),
     Rule("Core-BR-005", "Exactly one of BidRequest.app or BidRequest.site must be present", ERROR,
       Absent, "OpenRTB 2.6 sec. 3.2.1", hasRoot,
       BangBang(Or2(And2(app, Bang(site)), And2(Bang(app), site)))),
     Rule("Core-BR-006", "BidRequest must not contain both site and app objects", ERROR,
       "BidRequest", "OpenRTB 2.6 sec. 3.2.1", hasRoot,
       Bang(And2(app, site))),
     Rule("Core-BR-007", "test should be 0 (production) or 1 (test)", WARNING,
       "BidRequest.test", "OpenRTB 2.6 sec. 3.2.1",
       And2(hasRoot, IsDef(Get(root, "test"))),
       Is01(Get(root, "test"))),
     Rule("Core-BR-009", "tmax (timeout) should be present and greater than 0", WARNING,
       "BidRequest.tmax", "OpenRTB 2.6 sec. 3.2.1", hasRoot,
       And2(Get(root, "tmax"), Gt(Get(root, "tmax"), JNum(0)))),
     Rule("EQ-BR-002", "BidRequest must contain a device object", ERROR,
       "BidRequest.device", Absent, hasRoot, BangBang(Get(root, "device"))),
     Rule("EQ-BR-004", "BidRequest must contain a source object", ERROR,
       "BidRequest.source", Absent, hasRoot, BangBang(Get(root, "source"))),
     Rule("EQ-BR-005", "BidRequest must contain a user object", ERROR,
       "BidRequest.user", Absent, hasRoot, BangBang(Get(root, "user"))),
     Rule("EQ-BR-006", "partnerIsCalled must be true when present", ERROR,
       "BidRequest.ext.partnerIsCalled", Absent,
       And2(BangBang(OptGet(root, "ext")), IsDef(Get(ext, "partnerIsCalled"))),
       SEq(Get(ext, "partnerIsCalled"), JTrue)) >>

impressionRules(ctx) ==
  LET root == ctx.root
      hasRoot == BangBang(root)
      imps == Get(root, "imp")
  IN
  << Rule("Core-Imp-001", "Each impression must contain a unique id (string)", ERROR,
       "BidRequest.imp[].id", "OpenRTB 2.6 sec. 3.2.4", hasRoot,
       If(Bang(IsArr(imps)), JTrue, UniqueIds(imps))),
     Rule("Core-Imp-002", "Each impression must contain either video, native, or banner object", ERROR,
       "BidRequest.imp[]", "OpenRTB 2.6 sec. 3.2.4", hasRoot,
       ImpEvery(root, LAMBDA imp :
         Or4(BangBang(Get(imp, "video")), BangBang(Get(imp, "native")),
             BangBang(Get(imp, "banner")), BangBang(Get(imp, "audio"))))),
     Rule("Core-Imp-003", "Each impression must contain only one of video, native, or banner", ERROR,
       "BidRequest.imp[]", "OpenRTB 2.6 sec. 3.2.4", hasRoot,
       ImpEvery(root, LAMBDA imp :
         IF IsNullish(imp) THEN Thrown
         ELSE JBool(CountTruthy(<<Get(imp, "video"), Get(imp, "native"),
                                  Get(imp, "banner"), Get(imp, "audio")>>) <= 1))),
     Rule("Core-Imp-004", "bidfloor must be a non-negative number", WARNING,
       "BidRequest.imp[].bidfloor", Absent, hasRoot,
       ImpEvery(root, LAMBDA imp :
         Or2(IsUndef(Get(imp, "bidfloor")),
             And2(TypeIs(Get(imp, "bidfloor"), "number"),
                  Ge(Get(imp, "bidfloor"), JNum(0)))))),
     Rule("Core-Imp-005", "bidfloorcur must be present when bidfloor is specified", ERROR,
       "BidRequest.imp[].bidfloorcur", Absent, hasRoot,
       ImpEvery(root, LAMBDA imp :
         Or2(IsUndef(Get(imp, "bidfloor")), isNonEmptyString(Get(imp, "bidfloorcur"))))),
     Rule("Core-Imp-006", "secure must be 0 or 1", ERROR,
       "BidRequest.imp[].secure", Absent, hasRoot,
       ImpEvery(root, LAMBDA imp :
         Or2(IsUndef(Get(imp, "secure")), Is01(Get(imp, "secure"))))),
     Rule("EQ-Imp-036", "imp.secure must be either 0 or 1", ERROR,
       "BidRequest.imp[].secure", Absent, hasRoot,
       ImpEvery(root, LAMBDA imp :
         Or2(IsUndef(Get(imp, "secure")), Is01(Get(imp, "secure"))))),
     Rule("EQ-Imp-048", "imp.ext.wopv is recommended for video impressions", WARNING,
       "BidRequest.imp[].ext.wopv", Absent,
       And2(hasRoot, Has(ctx, "video")),
       ImpEvery(root, LAMBDA imp :
         Or2(Bang(Get(imp, "video")), BangBang(OptGet(Get(imp, "ext"), "wopv"))))),
     Rule("EQ-GOOD-002", "Zero bidfloor detected - may indicate test traffic", INFO,
       "BidRequest.imp[].bidfloor", Absent, hasRoot,
       If(Bang(IsArr(imps)), JTrue,
          Bang(Some(imps, LAMBDA imp : SEq(Get(imp, "bidfloor"), JNum(0)))))),
     Rule("EQ-Imp-010", "Mixed bidfloor currencies detected across impressions", ERROR,
       "BidRequest.imp[]", Absent, hasRoot,
       If(Bang(IsArr(imps)), JTrue, AtMostOneDistinct(imps, "bidfloorcur"))) >>

audioRules(ctx) ==
  LET imps == Get(ctx.root, "imp")
      on == Has(ctx, "audio")
  IN
  << Rule("Audio-A-001", "audio.mimes must be a non-empty array of strings", ERROR,
       "imp[].audio.mimes", Absent, on,
       Every(imps, LAMBDA imp :
         LET mimes == Get(Get(imp, "audio"), "mimes") IN
         Or2(Bang(Get(imp, "audio")),
             And3(IsArr(mimes), Gt(LengthOf(mimes), JNum(0)),
                  Every(mimes, LAMBDA mime : TypeIs(mime, "string")))))),
     Rule("Audio-A-002", "audio.mimes should include \"audio/mpeg\"", WARNING,
       "imp[].audio.mimes", Absent, on,
       Every(imps, LAMBDA imp :
         LET mimes == Get(Get(imp, "audio"), "mimes") IN
         Or3(Bang(Get(imp, "audio")), Bang(IsArr(mimes)),
             Includes(mimes, JStr("audio/mpeg"))))),
     Rule("Audio-A-003", "audio.protocols must be a non-empty array of integers", ERROR,
       "imp[].audio.protocols", Absent, on,
       Every(imps, LAMBDA imp :
         Or2(Bang(Get(imp, "audio")),
             NonEmptyArr(Get(Get(imp, "audio"), "protocols"))))),
     Rule("Audio-A-004", "maxduration must be >= minduration", ERROR,
       "imp[].audio.minduration/maxduration", Absent, on,
       Every(imps, LAMBDA imp :
         LET a == Get(imp, "audio") IN
         Or4(Bang(a), Bang(Get(a, "minduration")), Bang(Get(a, "maxduration")),
             Ge(Get(a, "maxduration"), Get(a, "minduration"))))),
     Rule("Audio-A-005", "audio.stitch must be 0 or 1 when present", ERROR,
       "imp[].audio.stitch", Absent, on,
       Every(imps, LAMBDA imp :
         LET a == Get(imp, "audio") IN
         Or3(Bang(a), IsUndef(Get(a, "stitch")), Is01(Get(a, "stitch"))))) >>

videoRules(ctx) ==
  LET imps == Get(ctx.root, "imp")
      on == Has(ctx, "video")
  IN
  << Rule("video-mimes", "Video.mimes must be a non-empty array of strings.", ERROR,
       "imp[].video.mimes", "OpenRTB 2.6 sec. 3.2.7", on,
       Every(imps, LAMBDA imp :
         Or2(Bang(Get(imp, "video")), NonEmptyArr(Get(Get(imp, "video"), "mimes"))))),
     Rule("video-durations", "Video.rqddurs and minduration/maxduration are mutually exclusive.", ERROR,
       "imp[].video", Absent, on,
       Every(imps, LAMBDA imp :
         LET v == Get(imp, "video")
             hasRange == Or2(IsDef(Get(v, "minduration")), IsDef(Get(v, "maxduration")))
             hasList == NonEmptyArr(Get(v, "rqddurs"))
         IN If(Bang(v), JTrue, Bang(And2(hasRange, hasList))))),
     Rule("EQ-Video-037", "imp.video.maxduration - imp.video.minduration must be greater than 30 seconds", ERROR,
       "BidRequest.imp[].video", Absent, on,
       Every(imps, LAMBDA imp :
         LET v == Get(imp, "video") IN
         If(Bang(v), JTrue,
            If(And2(Get(v, "minduration"), Get(v, "maxduration")),
               Ge(Minus(Get(v, "maxduration"), Get(v, "minduration")), JNum(30)),
               JTrue)))),
     Rule("EQ-Video-038", "imp.video.playbackmethod must be defined", ERROR,
       "BidRequest.imp[].video.playbackmethod", Absent, on,
       Every(imps, LAMBDA imp :
         Or2(Bang(Get(imp, "video")), BangBang(Get(Get(imp, "video"), "playbackmethod"))))),
     Rule("EQ-Video-039", "imp.video.placement must be defined", ERROR,
       "BidRequest.imp[].video.placement", Absent, on,
       Every(imps, LAMBDA imp :
         Or2(Bang(Get(imp, "video")), IsDef(Get(Get(imp, "video"), "placement"))))),
     Rule("EQ-Video-040", "imp.video.playbackmethod must include 1 (Autoplay Sounds On) for In-Stream placement", ERROR,
       "BidRequest.imp[].video.playbackmethod", Absent, on,
       Every(imps, LAMBDA imp :
         LET v == Get(imp, "video") IN
         If(Or2(Bang(v), SNe(Get(v, "placement"), JNum(1))), JTrue,
            And2(Get(v, "playbackmethod"), Includes(Get(v, "playbackmethod"), JNum(1)))))),
     Rule("EQ-Video-041", "imp.video.linearity must be defined", ERROR,
       "BidRequest.imp[].video.linearity", Absent, on,
       Every(imps, LAMBDA imp :
         Or2(Bang(Get(imp, "video")), IsDef(Get(Get(imp, "video"), "linearity"))))),
     Rule("EQ-Video-042", "imp.video.pos (position) must be set", ERROR,
       "BidRequest.imp[].video.pos", Absent, on,
       Every(imps, LAMBDA imp :
         Or2(Bang(Get(imp, "video")), IsDef(Get(Get(imp, "video"), "pos"))))),
     Rule("EQ-Video-043", "imp.video.protocols must be defined", ERROR,
       "BidRequest.imp[].video.protocols", Absent, on,
       Every(imps, LAMBDA imp :
         Or2(Bang(Get(imp, "video")), BangBang(Get(Get(imp, "video"), "protocols"))))),
     Rule("EQ-Video-044", "imp.video.mimes must be defined as an array", ERROR,
       "BidRequest.imp[].video.mimes", Absent, on,
       Every(imps, LAMBDA imp :
         Or2(Bang(Get(imp, "video")), IsArr(Get(Get(imp, "video"), "mimes"))))),
     Rule("EQ-Video-045", "video/mp4 mime is not set. Usually video bid requests contain video/mp4 mimes", WARNING,
       "BidRequest.imp[].video.mimes", Absent, on,
       Every(imps, LAMBDA imp :
         LET mimes == Get(Get(imp, "video"), "mimes") IN
         Or2(Bang(Get(imp, "video")),
             And2(IsArr(mimes), Includes(mimes, JStr("video/mp4")))))),
     Rule("EQ-Video-046", "imp.video.w (width) must be defined", ERROR,
       "BidRequest.imp[].video.w", Absent, on,
       Every(imps, LAMBDA imp :
         Or2(Bang(Get(imp, "video")), BangBang(Get(Get(imp, "video"), "w"))))),
     Rule("EQ-Video-047", "imp.video.h (height) must be defined", ERROR,
       "BidRequest.imp[].video.h", Absent, on,
       Every(imps, LAMBDA imp :
         Or2(Bang(Get(imp, "video")), BangBang(Get(Get(imp, "video"), "h"))))),
     Rule("EQ-Video-049", "imp.video.startdelay is recommended", WARNING,
       "  BidRequest.imp[].video.startdelay", Absent, on,
       Every(imps, LAMBDA imp :
         Or2(Bang(Get(imp, "video")), IsDef(Get(Get(imp, "video"), "startdelay"))))),
     Rule("EQ-Video-050", "imp.video.startdelay must be an integer (positive, negative or zero)", ERROR,
       "BidRequest.imp[].video.startdelay", Absent, on,
       Every(imps, LAMBDA imp :
         LET sd == Get(Get(imp, "video"), "startdelay") IN
         Or3(Bang(Get(imp, "video")), IsUndef(sd), IsInteger(sd)))) >>

bannerRules(ctx) ==
  LET imps == Get(ctx.root, "imp")
      on == Has(ctx, "banner")
  IN
  << Rule("banner-dimensions", "Banner impression must define w/h or a non-empty format array.", ERROR,
       "imp[].banner", "OpenRTB 2.6 sec. 3.2.6", on,
       Every(imps, LAMBDA imp :
         LET b == Get(imp, "banner")
             format == Get(b, "format")
         IN If(Bang(b), JTrue,
               If(And2(Gt(Get(b, "w"), JNum(0)), Gt(Get(b, "h"), JNum(0))), JTrue,
                  If(And2(IsArr(format), LengthOf(format)),
                     Every(format, LAMBDA f :
                       And2(Gt(Get(f, "w"), JNum(0)), Gt(Get(f, "h"), JNum(0)))),
                     JFalse))))),
     Rule("Banner-B-001", "banner must contain either w/h or format array", ERROR,
       "BidRequest.imp[].banner", Absent, on,
       Every(imps, LAMBDA imp :
         LET b == Get(imp, "banner")
             format == Get(b, "format")
             hasWH == And2(IsDef(Get(b, "w")), IsDef(Get(b, "h")))
             hasFormat == And3(format, IsArr(format), Gt(LengthOf(format), JNum(0)))
         IN If(Bang(b), JTrue, Or2(hasWH, hasFormat)))),
     Rule("Banner-B-002", "Each format entry must have w and h", ERROR,
       "BidRequest.imp[].banner.format[]", Absent, on,
       Every(imps, LAMBDA imp :
         LET format == OptGet(Get(imp, "banner"), "format") IN
         If(Bang(format), JTrue,
            Every(format, LAMBDA f : And2(Get(f, "w"), Get(f, "h")))))) >>

\* JSON.parse(request) inside try { ... } catch { return false }: P is the
\* body's result on the parsed value; any exception gives false.
TryParsed(request, P(_)) ==
  LET r == JSONparse(ToStringJS(request)) IN
  IF ~r.ok THEN JFalse
  ELSE LET res == P(r.v) IN IF IsThrown(res) THEN JFalse ELSE res

\* if (!imp.native?.request) return true; try { ... P ... } catch { false }
NativeCheck(imp, P(_)) ==
  LET request == OptGet(Get(imp, "native"), "request") IN
  If(Bang(request), JTrue, TryParsed(request, P))

nativeRules(ctx) ==
  LET imps == Get(ctx.root, "imp")
      on == Has(ctx, "native")
  IN
  << Rule("Native-N-001", "native.request must be present and be a string", ERROR,
       "BidRequest.imp[].native.request", Absent, on,
       Every(imps, LAMBDA imp :
         Or2(Bang(Get(imp, "native")),
             isNonEmptyString(Get(Get(imp, "native"), "request"))))),
     Rule("Native-N-002", "Native request must contain ver (version string)", ERROR,
       "BidRequest.imp[].native.request.ver", Absent, on,
       Every(imps, LAMBDA imp :
         NativeCheck(imp, LAMBDA nativeRequest : BangBang(Get(nativeRequest, "ver"))))),
     Rule("Native-N-003", "Native request must contain a non-empty assets array", ERROR,
       "BidRequest.imp[].native.request.assets", Absent, on,
       Every(imps, LAMBDA imp :
         NativeCheck(imp, LAMBDA nativeRequest : NonEmptyArr(Get(nativeRequest, "assets"))))),
     Rule("Native-N-004", "Each native asset must have an id", ERROR,
       "BidRequest.imp[].native.request.assets[].id", Absent, on,
       Every(imps, LAMBDA imp :
         NativeCheck(imp, LAMBDA nativeRequest :
           LET assets == Get(nativeRequest, "assets") IN
           If(Bang(IsArr(assets)), JTrue,
              Every(assets, LAMBDA asset : BangBang(Get(asset, "id"))))))),
     Rule("Native-N-005", "Each asset must have either title, img, video, or data", ERROR,
       "BidRequest.imp[].native.request.assets[]", Absent, on,
       Every(imps, LAMBDA imp :
         NativeCheck(imp, LAMBDA nativeRequest :
           LET assets == Get(nativeRequest, "assets") IN
           If(Bang(IsArr(assets)), JTrue,
              Every(assets, LAMBDA asset :
                Or4(Get(asset, "title"), Get(asset, "img"),
                    Get(asset, "video"), Get(asset, "data"))))))),
     Rule("Native-N-006", "native.request must be valid JSON", ERROR,
       "BidRequest.imp[].native.request", Absent, on,
       Every(imps, LAMBDA imp :
         LET request == OptGet(Get(imp, "native"), "request") IN
         If(Bang(request), JTrue, JBool(safeJsonParse(ToStringJS(request)).ok)))) >>

appRules(ctx) ==
  LET root == ctx.root
      app == Get(root, "app")
      on == BangBang(OptGet(root, "app"))
  IN
  << Rule("Core-App-003", "app.id must be present and be a non-empty string", ERROR,
       "BidRequest.app.id", "OpenRTB 2.6 sec. 3.2.14", on,
       isNonEmptyString(Get(app, "id"))),
     Rule("Core-App-004", "app.bundle must be present and be a non-empty string", ERROR,
       "BidRequest.app.bundle", "OpenRTB 2.6 sec. 3.2.14", on,
       isNonEmptyString(Get(app, "bundle"))),
     Rule("Core-App-005", "app.storeurl must be present and be a non-empty string", ERROR,
       "BidRequest.app.storeurl", "OpenRTB 2.6 sec. 3.2.14", on,
       isNonEmptyString(Get(app, "storeurl"))),
     Rule("Core-App-006", "app.publisher must be present", ERROR,
       "BidRequest.app.publisher", "OpenRTB 2.6 sec. 3.2.14", on,
       BangBang(Get(app, "publisher"))),
     Rule("EQ-App-017", "app.name must be present and be a non-empty string", WARNING,
       "BidRequest.app.name", Absent, on,
       isNonEmptyString(Get(app, "name"))),
     Rule("EQ-App-019", "app.storeurl contains unresolved macros", ERROR,
       "BidRequest.app.storeurl", Absent,
       BangBang(OptGet(OptGet(root, "app"), "storeurl")),
       Bang(containsMacros(Get(app, "storeurl")))),
     Rule("EQ-App-020", "app.bundle contains unresolved macros", ERROR,
       "BidRequest.app.bundle", Absent,
       BangBang(OptGet(OptGet(root, "app"), "bundle")),
       Bang(containsMacros(Get(app, "bundle")))) >>

siteRules(ctx) ==
  LET root == ctx.root
      site == Get(root, "site")
      on == BangBang(OptGet(root, "site"))
  IN
  << Rule("Core-Site-001", "site.id must be present and be a non-empty string", ERROR,
       "BidRequest.site.id", "OpenRTB 2.6 sec. 3.2.13", on,
       isNonEmptyString(Get(site, "id"))),
     Rule("Core-Site-003", "site.domain must be present and be a non-empty string", ERROR,
       "BidRequest.site.domain", "OpenRTB 2.6 sec. 3.2.13", on,
       isNonEmptyString(Get(site, "domain"))),
     Rule("Core-Site-004", "site.publisher must be present", ERROR,
       "BidRequest.site.publisher", "OpenRTB 2.6 sec. 3.2.13", on,
       BangBang(Get(site, "publisher"))) >>

deviceRules(ctx) ==
  LET root == ctx.root
      device == Get(root, "device")
      on == BangBang(OptGet(root, "device"))
      ip == Get(device, "ip")
      hasIp == BangBang(OptGet(OptGet(root, "device"), "ip"))
      dt == Get(device, "devicetype")
      mobile == And2(on, Or2(SEq(dt, JNum(1)), SEq(dt, JNum(4))))
      geo == OptGet(OptGet(root, "device"), "geo")
  IN
  << Rule("Core-Device-004", "device.ua must be present and be a non-empty string", ERROR,
       "BidRequest.device.ua", "OpenRTB 2.6 sec. 3.2.18", on,
       isNonEmptyString(Get(device, "ua"))),
     Rule("Core-Device-005", "device.ip must be present and be a valid IP address", ERROR,
       "BidRequest.device.ip", "OpenRTB 2.6 sec. 3.2.18", on,
       And2(isNonEmptyString(ip), Or2(isValidIPv4(ip), isValidIPv6(ip)))),
     Rule("Core-Device-006", "device.devicetype must be present and be an integer", ERROR,
       "BidRequest.device.devicetype", "OpenRTB 2.6 sec. 3.2.18", on,
       IsInteger(dt)),
     Rule("Core-Device-007", "device.lmt must be 0 or 1", ERROR,
       "BidRequest.device.lmt", Absent,
       And2(on, IsDef(Get(device, "lmt"))),
       Is01(Get(device, "lmt"))),
     Rule("Core-Device-008", "device.dnt must be 0 or 1", ERROR,
       "BidRequest.device.dnt", Absent,
       And2(on, IsDef(Get(device, "dnt"))),
       Is01(Get(device, "dnt"))),
     Rule("Core-Device-009", "Detected truncated IP address", WARNING,
       "BidRequest.device.ip", Absent, hasIp,
       If(isValidIPv4(ip), Bang(isTruncatedIP(ip)),
          If(isValidIPv6(ip), Bang(isTruncatedIPv6(ip)), JTrue))),
     Rule("EQ-Device-022", "device.make must be present and be a non-empty string", ERROR,
       "BidRequest.device.make", Absent, on,
       isNonEmptyString(Get(device, "make"))),
     Rule("EQ-Device-023", "device.model must be present and be a non-empty string", ERROR,
       "BidRequest.device.model", Absent, on,
       isNonEmptyString(Get(device, "model"))),
     Rule("EQ-Device-024", "Country continent mismatch with datacenter continent", WARNING,
       "BidRequest.device.geo.country", Absent,
       And2(BangBang(OptGet(geo, "country")),
            BangBang(OptGet(OptGet(root, "ext"), "auctionDatacenterId"))),
       JTrue),
     Rule("EQ-Device-025", "device.os must be present and be a non-empty string", ERROR,
       "BidRequest.device.os", Absent, on,
       isNonEmptyString(Get(device, "os"))),
     Rule("EQ-Device-026", "device.ifa must be present for mobile devices", ERROR,
       "BidRequest.device.ifa", Absent, mobile,
       isNonEmptyString(Get(device, "ifa"))),
     Rule("EQ-Device-027", "device.geo must be present", ERROR,
       "BidRequest.device.geo", Absent, on,
       BangBang(Get(device, "geo"))),
     Rule("EQ-Device-028", "device.geo.country must be present and be a non-empty string", ERROR,
       "BidRequest.device.geo.country", Absent, BangBang(geo),
       isNonEmptyString(Get(Get(device, "geo"), "country"))),
     Rule("EQ-Device-029", "Privacy conflict: device.lmt=1 but device.ifa is present", ERROR,
       "BidRequest.device", Absent,
       And2(on, SEq(Get(device, "lmt"), JNum(1))),
       Bang(Get(device, "ifa"))),
     Rule("EQ-Device-030", "device.ip appears to be truncated or anonymized", WARNING,
       "BidRequest.device.ip", Absent, hasIp,
       And2(Bang(isTruncatedIP(ip)), Bang(isTruncatedIPv6(ip)))),
     Rule("EQ-Device-031", "device.connectiontype must be present", WARNING,
       "BidRequest.device.connectiontype", Absent, on,
       IsDef(Get(device, "connectiontype"))),
     Rule("EQ-Device-032", "device.w (screen width) should be present for mobile devices", WARNING,
       "BidRequest.device.w", Absent, mobile,
       BangBang(Get(device, "w"))),
     Rule("EQ-Device-033", "device.h (screen height) should be present for mobile devices", WARNING,
       "BidRequest.device.h", Absent, mobile,
       BangBang(Get(device, "h"))),
     Rule("EQ-Device-034", "device.ppi (pixels per inch) should be present for mobile devices", INFO,
       "BidRequest.device.ppi", Absent, mobile,
       BangBang(Get(device, "ppi"))),
     Rule("EQ-Device-035", "device.language should be present", INFO,
       "BidRequest.device.language", Absent, on,
       BangBang(Get(device, "language"))) >>

\* Math.abs(w / h - 16/9) < 0.1, in exact arithmetic
AspectNear16x9(w, h) ==
  LET x == ToNumber(w)
      y == ToNumber(h)
  IN JBool(/\ ~IsNaN(x) /\ ~IsNaN(y)
           /\ 10 * Abs(9 * x.n * y.d - 16 * x.d * y.n) < 9 * Abs(x.d * y.n))

ctvRules(ctx) ==
  LET root == ctx.root
      imps == Get(root, "imp")
      ctv == JBool(ctx.isCTV)
      ctvVideo == And2(JBool(ctx.isCTV), Has(ctx, "video"))
      device == Get(root, "device")
      ids == OptGet(Get(device, "ext"), "ids")
  IN
  << Rule("EQ-CTV-053", "CTV video should have 16:9 aspect ratio", WARNING,
       "imp[].video", Absent, ctvVideo,
       Every(imps, LAMBDA imp :
         LET v == Get(imp, "video") IN
         If(Bang(v), JTrue,
            If(And2(Get(v, "w"), Get(v, "h")),
               AspectNear16x9(Get(v, "w"), Get(v, "h")), JTrue)))),
     Rule("EQ-CTV-052", "CTV: imp.video.pos must be set to 7 (Full Screen)", ERROR,
       "BidRequest.imp[].video.pos", Absent, ctvVideo,
       Every(imps, LAMBDA imp :
         If(Bang(Get(imp, "video")), JTrue, SEq(Get(Get(imp, "video"), "pos"), JNum(7))))),
     Rule("EQ-CTV-051", "CTV: imp.video.pos must be defined", ERROR,
       "BidRequest.imp[].video.pos", Absent, ctvVideo,
       Every(imps, LAMBDA imp :
         If(Bang(Get(imp, "video")), JTrue, IsDef(Get(Get(imp, "video"), "pos"))))),
     Rule("EQ-CTV-054", "app object must be defined for CTV requests", ERROR,
       "BidRequest.app", Absent, ctv,
       BangBang(Get(root, "app"))),
     Rule("CTV-007", "CTV video pos must be 7 (Full Screen)", ERROR,
       "BidRequest.imp[].video.pos", Absent, ctvVideo,
       Every(imps, LAMBDA imp :
         If(Bang(Get(imp, "video")), JTrue, SEq(Get(Get(imp, "video"), "pos"), JNum(7))))),
     Rule("CTV-001", "CTV requests must contain video impressions", ERROR,
       "BidRequest.imp", Absent, ctv,
       And2(imps, Some(imps, LAMBDA imp : Get(imp, "video")))),
     Rule("CTV-002", "CTV requests must contain app object", ERROR,
       "BidRequest.app", Absent, ctv,
       BangBang(Get(root, "app"))),
     Rule("CTV-003", "CTV requests must contain device.ifa or equivalent ID", ERROR,
       "BidRequest.device", Absent, ctv,
       And2(device, Or3(Get(device, "ifa"), OptGet(ids, "idfa"), OptGet(ids, "rida")))),
     Rule("CTV-004", "CTV requests must contain device.make and device.model", ERROR,
       "BidRequest.device", Absent, ctv,
       And3(device, Get(device, "make"), Get(device, "model"))),
     Rule("CTV-005", "CTV video placement must be 1 (In-Stream)", ERROR,
       "BidRequest.imp[].video.placement", Absent, ctvVideo,
       Every(imps, LAMBDA imp :
         If(Bang(Get(imp, "video")), JTrue,
            SEq(Get(Get(imp, "video"), "placement"), JNum(1))))),
     Rule("CTV-006", "CTV video linearity must be 1 (Linear)", ERROR,
       "BidRequest.imp[].video.linearity", Absent, ctvVideo,
       Every(imps, LAMBDA imp :
         If(Bang(Get(imp, "video")), JTrue,
            SEq(Get(Get(imp, "video"), "linearity"), JNum(1))))) >>

\* doohObjects of DOOH-002/003: root.dooh when truthy, then every truthy
\* imp.dooh (root.imp.forEach when root.imp is truthy); every one of them
\* must have a truthy field.
DoohObjectsHave(root, field) ==
  LET imps == Get(root, "imp")
      own == IF Truthy(Get(root, "dooh")) THEN <<Get(root, "dooh")>> ELSE <<>>
      r == IF IsArray(imps) THEN [i \in 1..Len(imps.a) |-> Get(imps.a[i], "dooh")]
           ELSE <<>>
  IN IF IsThrown(imps) THEN Thrown
     ELSE IF Truthy(imps) /\ ~IsArray(imps) THEN Thrown
     ELSE IF \E i \in 1..Len(r) : IsThrown(r[i]) THEN Thrown
     ELSE JBool(/\ \A i \in 1..Len(own) : Truthy(Get(own[i], field))
                /\ \A i \in 1..Len(r) : Truthy(r[i]) => Truthy(Get(r[i], field)))

doohRules(ctx) ==
  LET root == ctx.root
      imps == Get(root, "imp")
      on == And2(BangBang(OptGet(root, "device")),
                 SEq(Get(Get(root, "device"), "devicetype"), JNum(6)))
  IN
  << Rule("dooh-qty", "imp.qty.multiplier must be a positive number for DOOH.", ERROR,
       "imp[].qty.multiplier", Absent, Has(ctx, "dooh"),
       Every(imps, LAMBDA imp :
         Or2(Bang(Get(imp, "qty")), Gt(Get(Get(imp, "qty"), "multiplier"), JNum(0))))),
     Rule("DOOH-001", "DOOH requests must contain dooh object in impression or bid request", ERROR,
       "BidRequest", Absent, on,
       BangBang(Or2(IF IsNullish(imps) THEN Undefined
                    ELSE Some(imps, LAMBDA imp : Get(imp, "dooh")),
                    Get(root, "dooh")))),
     Rule("DOOH-002", "DOOH object must contain venuetype", ERROR,
       "dooh.venuetype", Absent, on,
       DoohObjectsHave(root, "venuetype")),
     Rule("DOOH-003", "DOOH object should contain venuetypetax", WARNING,
       "dooh.venuetypetax", Absent, on,
       DoohObjectsHave(root, "venuetypetax")) >>

sharethroughRules(ctx) ==
  << Rule("st-pkey", "Sharethrough profile: ext.sharethrough.pkey is required.", ERROR,
       "imp[].ext.sharethrough.pkey", Absent,
       JBool(ctx.partnerProfile = "sharethrough"),
       Every(Get(ctx.root, "imp"), LAMBDA imp :
         isNonEmptyString(OptGet(OptGet(Get(imp, "ext"), "sharethrough"), "pkey")))) >>

privacyRules(ctx) ==
  LET root == ctx.root
      regs == Get(root, "regs")
      oregs == OptGet(root, "regs")
      consent == OptGet(OptGet(Get(root, "user"), "ext"), "consent")
  IN
  << Rule("regs-gdpr", "If regs.gdpr is present, it must be 0 or 1.", ERROR,
       "regs.gdpr", "OpenRTB 2.6 sec. 3.2.3",
       And2(BangBang(oregs), IsDef(Get(regs, "gdpr"))),
       Is01(Get(regs, "gdpr"))),
     Rule("gdpr-consent", "GDPR=1 but user.ext.consent is missing or empty.", ERROR,
       "user.ext.consent", "IAB TCF v2.x",
       SEq(OptGet(oregs, "gdpr"), JNum(1)),
       isNonEmptyString(consent)),
     Rule("Core-Regs-001", "regs.coppa must be 0 or 1", ERROR,
       "BidRequest.regs.coppa", "OpenRTB 2.6 sec. 3.2.3",
       And2(BangBang(oregs), IsDef(Get(regs, "coppa"))),
       Is01(Get(regs, "coppa"))),
     Rule("Core-Regs-002", "regs.ext.gdpr must be 0 or 1", WARNING,
       "BidRequest.regs.ext.gdpr", "OpenRTB 2.6 sec. 3.2.3",
       And2(BangBang(OptGet(oregs, "ext")), IsDef(Get(Get(regs, "ext"), "gdpr"))),
       Is01(Get(Get(regs, "ext"), "gdpr"))),
     Rule("Core-Regs-003", "user.ext.consent (TCF String) must be present when gdpr=1", ERROR,
       "BidRequest.user.ext.consent", "IAB TCF v2.x",
       SEq(OptGet(OptGet(oregs, "ext"), "gdpr"), JNum(1)),
       isNonEmptyString(consent)),
     Rule("Core-Regs-004", "regs.gpp_sid must be present when gpp is specified", ERROR,
       "BidRequest.regs.gpp_sid", "OpenRTB 2.6 sec. 3.2.3",
       BangBang(OptGet(oregs, "gpp")),
       BangBang(Get(regs, "gpp_sid"))) >>

sourceRules(ctx) ==
  LET root == ctx.root
      source == Get(root, "source")
      schain == Get(source, "schain")
      osource == OptGet(root, "source")
      oschain == OptGet(osource, "schain")
  IN
  << Rule("Core-Source-001", "source.schain (SupplyChain Object) must be present", ERROR,
       "BidRequest.source.schain", "OpenRTB 2.6 sec. 3.2.2", BangBang(osource),
       BangBang(schain)),
     Rule("Core-Source-002", "schain.complete must be 1", ERROR,
       "BidRequest.source.schain.complete", "OpenRTB 2.6 sec. 3.2.2", BangBang(oschain),
       SEq(Get(schain, "complete"), JNum(1))),
     Rule("Core-Source-003", "schain.nodes must be a non-empty array", ERROR,
       "BidRequest.source.schain.nodes", "OpenRTB 2.6 sec. 3.2.2", BangBang(oschain),
       NonEmptyArr(Get(schain, "nodes"))),
     Rule("Core-Source-004", "Each schain node must contain asi, sid, and hp", ERROR,
       "BidRequest.source.schain.nodes[]", "OpenRTB 2.6 sec. 3.2.2",
       BangBang(OptGet(oschain, "nodes")),
       Every(Get(schain, "nodes"), LAMBDA node :
         And3(Get(node, "asi"), Get(node, "sid"), IsDef(Get(node, "hp"))))),
     Rule("EQ-Source-021", "source.schain must be defined", ERROR,
       "BidRequest.source.schain", Absent, BangBang(osource),
       BangBang(Or2(schain, OptGet(Get(source, "ext"), "schain")))) >>

\* A string as JSON.stringify quotes it.
QuotedChar(c) ==
  CASE c = "\"" -> "\\\""
    [] c = "\\" -> "\\\\"
    [] c = "\n" -> "\\n"
    [] c = "\t" -> "\\t"
    [] c = "\r" -> "\\r"
    [] OTHER -> c

Quote(s) ==
  "\"" \o ConcatRange([i \in 1..Len(s) |-> QuotedChar(Ch(s, i))], 1, Len(s)) \o "\""

\* JSON.stringify(v) of a parsed value (no indentation)
RECURSIVE Stringify(_)
RECURSIVE StringifyItems(_, _, _)
StringifyItems(items, i, isObj) ==
  IF i > Len(items) THEN ""
  ELSE (IF isObj THEN Quote(items[i][1]) \o ":" \o Stringify(items[i][2])
        ELSE Stringify(items[i]))
       \o (IF i < Len(items) THEN "," ELSE "")
       \o StringifyItems(items, i + 1, isObj)

Stringify(v) ==
  CASE v.t = "object" -> "{" \o StringifyItems(OwnMembers(v.o), 1, TRUE) \o "}"
    [] v.t = "array" -> "[" \o StringifyItems(v.a, 1, FALSE) \o "]"
    [] v.t = "string" -> Quote(v.s)
    [] OTHER -> ToStringJS(v)

advancedRules(ctx) ==
  LET root == ctx.root
      isApp == OptGet(OptGet(OptGet(root, "device"), "ext"), "is_app")
      oeids == OptGet(OptGet(root, "user"), "eids")
      eids == Get(Get(root, "user"), "eids")
  IN
  << Rule("Advanced-001", "Bid request contains un-replaced macros", ERROR,
       "BidRequest", Absent, BangBang(root),
       IF Truthy(root) THEN JBool(~MACRO_REGEX(Stringify(root))) ELSE Thrown),
     Rule("Advanced-002", "device.ext.is_app=1 but no app object present", ERROR,
       "BidRequest", Absent,
       And2(BangBang(isApp), SEq(Get(Get(Get(root, "device"), "ext"), "is_app"), JNum(1))),
       BangBang(Get(root, "app"))),
     Rule("Advanced-003", "device.ext.is_app=0 but no site object present", ERROR,
       "BidRequest", Absent,
       And2(BangBang(isApp), SEq(Get(Get(Get(root, "device"), "ext"), "is_app"), JNum(0))),
       BangBang(Get(root, "site"))),
     Rule("Advanced-004", "user.eids must be an array", WARNING,
       "BidRequest.user.eids", Absent, BangBang(oeids),
       IsArr(eids)),
     Rule("Advanced-005", "Each EID must have source and uids", ERROR,
       "BidRequest.user.eids[]", Absent,
       And2(BangBang(oeids), IsArr(eids)),
       Every(eids, LAMBDA eid : And2(Get(eid, "source"), Get(eid, "uids")))),
     Rule("Advanced-006", "Each UID must have an id", ERROR,
       "BidRequest.user.eids[].uids[]", Absent,
       And2(BangBang(oeids), IsArr(eids)),
       Every(eids, LAMBDA eid :
         Or2(Bang(IsArr(Get(eid, "uids"))),
             Every(Get(eid, "uids"), LAMBDA uid : BangBang(Get(uid, "id")))))) >>

\* allRuleSets, in evaluation order
\* The rule sets in the order the file declares them.
allRuleSetsAsDeclared(ctx) ==
  << coreRules(ctx), impressionRules(ctx), audioRules(ctx), videoRules(ctx),
     bannerRules(ctx), nativeRules(ctx), appRules(ctx), siteRules(ctx),
     deviceRules(ctx), ctvRules(ctx), doohRules(ctx), sharethroughRules(ctx),
     privacyRules(ctx), sourceRules(ctx), advancedRules(ctx) >>

allRuleSets(ctx) ==
  << coreRules(ctx), impressionRules(ctx), appRules(ctx), siteRules(ctx),
     deviceRules(ctx), videoRules(ctx), audioRules(ctx), nativeRules(ctx),
     bannerRules(ctx), ctvRules(ctx), doohRules(ctx), sharethroughRules(ctx),
     privacyRules(ctx), sourceRules(ctx), advancedRules(ctx) >>

(***************************************************************************)
(* 2e. The context builder                                                 *)
(***************************************************************************)

\* The kinds one impression adds, in the order the scan tests them.
InventoryKeys == <<"banner", "video", "audio", "native", "qty">>
KindOfKey(k) == IF k = "qty" THEN "dooh" ELSE k

\* Set.add: insertion order, no duplicates.
SetAdd(inv, kind) ==
  IF \E i \in 1..Len(inv) : inv[i] = kind THEN inv ELSE Append(inv, kind)

RECURSIVE AddKinds(_, _, _)
AddKinds(inv, imp, k) ==
  IF k > Len(InventoryKeys) THEN inv
  ELSE AddKinds(IF Truthy(Get(imp, InventoryKeys[k]))
                THEN SetAdd(inv, KindOfKey(InventoryKeys[k])) ELSE inv,
                imp, k + 1)

\* root.imp.forEach(imp => { if (imp.banner) ... }): the inventory after the
\* scan, threw when an element is null (imp.banner raises a TypeError).
RECURSIVE ScanImps(_, _, _)
ScanImps(imps, i, inv) ==
  IF i > Len(imps) THEN [threw |-> FALSE, inventory |-> inv]
  ELSE IF IsNullish(imps[i]) THEN [threw |-> TRUE, inventory |-> inv]
  ELSE ScanImps(imps, i + 1, AddKinds(inv, imps[i], 1))

\* Device-type codes the auto-detection treats as CTV.
IsCTVDeviceType(dt) == StrictEq(dt, JNum(3)) \/ StrictEq(dt, JNum(5))

\* A builder that takes forceCTV to mean video inventory, whatever the root.
BuildContextForcedVideo(root, options) ==
  LET forced == Truthy(options.forceCTV)
      scanned == Truthy(root) /\ IsArray(Get(root, "imp"))
      scan == IF scanned
              THEN ScanImps(Get(root, "imp").a, 1, IF forced THEN <<"video">> ELSE <<>>)
              ELSE [threw |-> FALSE, inventory |-> IF forced THEN <<"video">> ELSE <<>>]
      dt == OptGet(OptGet(root, "device"), "devicetype")
  IN [threw |-> scan.threw,
      ctx |-> [root |-> root,
               inventory |-> scan.inventory,
               isCTV |-> forced \/ (scanned /\ IsCTVDeviceType(dt)),
               partnerProfile |-> options.partnerProfile]]

\* The context of a call: [threw, ctx].  options.forceCTV is undefined, false
\* or true; options.partnerProfile is Absent or "sharethrough".
BuildContext(root, options) ==
  LET forced == Truthy(options.forceCTV)
      scanned == Truthy(root) /\ IsArray(Get(root, "imp"))
      scan == IF scanned THEN ScanImps(Get(root, "imp").a, 1, <<>>)
              ELSE [threw |-> FALSE, inventory |-> <<>>]
      dt == OptGet(OptGet(root, "device"), "devicetype")
  IN [threw |-> scan.threw,
      ctx |-> [root |-> root,
               inventory |-> scan.inventory,
               isCTV |-> forced \/ (scanned /\ IsCTVDeviceType(dt)),
               partnerProfile |-> options.partnerProfile]]

(***************************************************************************)
(* 2f. The rule pass.  The pass keeps the issues collected so far, the     *)
(* trace of the applies and validate calls it made, whether a call raised  *)
(* (which ends the pass: nothing in analyse catches it), and ctx, the      *)
(* context object every rule is handed.                                    *)
(***************************************************************************)

Call(op, rule, ret) == [op |-> op, id |-> rule.id, ret |-> ret]

IssueOf(rule) ==
  Issue(rule.id, rule.severity, rule.description, rule.path, rule.specRef)

\* A rule step that records each failing rule in the context's inventory
\* as well as in the issues.
RunRuleWriting(pass, rule) ==
  LET asked == IF rule.hasApplies
               THEN Append(pass.trace, Call("applies", rule, rule.applies))
               ELSE pass.trace
      validated == Append(asked, Call("validate", rule, rule.validate))
  IN
  IF pass.threw THEN pass
  ELSE IF rule.hasApplies /\ IsThrown(rule.applies)
    THEN [pass EXCEPT !.trace = asked, !.threw = TRUE]
  ELSE IF rule.hasApplies /\ ~Truthy(rule.applies)
    THEN [pass EXCEPT !.trace = asked]
  ELSE IF IsThrown(rule.validate)
    THEN [pass EXCEPT !.trace = validated, !.threw = TRUE]
  ELSE IF ~Truthy(rule.validate)
    THEN [pass EXCEPT !.trace = validated,
                      !.issues = Append(pass.issues, IssueOf(rule)),
                      !.ctx.inventory = Append(pass.ctx.inventory, rule.id)]
  ELSE [pass EXCEPT !.trace = validated]

\* A rule step that validates every rule, whatever its applies says.
RunRuleUngated(pass, rule) ==
  LET validated == Append(pass.trace, Call("validate", rule, rule.validate)) IN
  IF pass.threw THEN pass
  ELSE IF IsThrown(rule.validate)
    THEN [pass EXCEPT !.trace = validated, !.threw = TRUE]
  ELSE IF ~Truthy(rule.validate)
    THEN [pass EXCEPT !.trace = validated,
                      !.issues = Append(pass.issues, IssueOf(rule))]
  ELSE [pass EXCEPT !.trace = validated]

\* if (!rule.applies || rule.applies(ctx)) {
\*   const valid = rule.validate(ctx); if (!valid) issues.push({...}) }
RunRule(pass, rule) ==
  LET asked == IF rule.hasApplies
               THEN Append(pass.trace, Call("applies", rule, rule.applies))
               ELSE pass.trace
      validated == Append(asked, Call("validate", rule, rule.validate))
  IN
  IF pass.threw THEN pass
  ELSE IF rule.hasApplies /\ IsThrown(rule.applies)
    THEN [pass EXCEPT !.trace = asked, !.threw = TRUE]
  ELSE IF rule.hasApplies /\ ~Truthy(rule.applies)
    THEN [pass EXCEPT !.trace = asked]
  ELSE IF IsThrown(rule.validate)
    THEN [pass EXCEPT !.trace = validated, !.threw = TRUE]
  ELSE IF ~Truthy(rule.validate)
    THEN [pass EXCEPT !.trace = validated,
                      !.issues = Append(pass.issues, IssueOf(rule))]
  ELSE [pass EXCEPT !.trace = validated]

\* rules.forEach(rule => ...)
RECURSIVE RunRuleSet(_, _, _)
RunRuleSet(pass, rules, i) ==
  IF i > Len(rules) THEN pass
  ELSE LET next == RunRule(pass, rules[i]) IN
       IF next.threw THEN next ELSE RunRuleSet(next, rules, i + 1)

\* allRuleSets.forEach(rules => ...)
RECURSIVE RunRuleSets(_, _, _)
RunRuleSets(pass, sets, i) ==
  IF i > Len(sets) THEN pass
  ELSE LET next == RunRuleSet(pass, sets[i], 1) IN
       IF next.threw THEN next ELSE RunRuleSets(next, sets, i + 1)

RulePass(ctx) ==
  RunRuleSets([issues |-> <<>>, trace |-> <<>>, threw |-> FALSE, ctx |-> ctx],
              allRuleSets(ctx), 1)

(***************************************************************************)
(* 2g. The cross-field validators.  Each yields [threw, issues]: the       *)
(* issues it pushes onto the list.                                         *)
(***************************************************************************)

Pushed(issues) == [threw |-> FALSE, issues |-> issues]
Raised == [threw |-> TRUE, issues |-> <<>>]

\* The first <<platform index, pattern index>> of STORE_URL_MAP whose
\* pattern matches, in iteration order; <<0, 0>> when none does.
FirstStoreMatch(map) ==
  LET hits == {pq \in {<<p, q>> : p \in 1..Len(map), q \in 1..3} :
                 pq[2] <= Len(map[pq[1]].matches) /\ map[pq[1]].matches[pq[2]].m}
  IN IF hits = {} THEN <<0, 0>>
     ELSE CHOOSE h \in hits :
            \A g \in hits : h[1] < g[1] \/ (h[1] = g[1] /\ h[2] <= g[2])

validateStoreUrlAndBundle(storeUrl, bundle) ==
  LET Compared(config, extractedId) ==
        IF ~config.bundleOk \/ ~StrictEq(JStr(extractedId), bundle)
        THEN Pushed(<<Issue("EQ-App-009", ERROR,
                            "Store URL and bundle mismatch for " \o config.platform,
                            "BidRequest.app",
                            config.platform \o " store pattern")>>)
        ELSE Pushed(<<>>)
      Found(map, h) ==
        IF h = <<0, 0>>
        THEN Pushed(<<Issue("EQ-App-010", ERROR,
                            "Store URL does not match any known platform pattern",
                            "BidRequest.app.storeurl", Absent)>>)
        ELSE Compared(map[h[1]], map[h[1]].matches[h[2]].id)
      Searched(map) == Found(map, FirstStoreMatch(map))
  IN IF ~IsStringV(storeUrl) THEN Raised   \* storeUrl.match is not a function
     ELSE Searched(STORE_URL_MAP(storeUrl.s, ToStringJS(bundle)))

\* Map.get / Map.has on a key: a datacenter id is found when it is one of the
\* integer keys, a country when it is one of the string keys.
DatacenterKey(v) ==
  IF IsNumber(v) /\ v.d # 0 /\ v.n % v.d = 0 /\ (v.n \div v.d) \in DOMAIN DATA_CENTER_MAP
  THEN v.n \div v.d ELSE 0

\* A validator that compares the continents without asking whether the
\* datacenter's continent is known.
validateCountryDatacenterAnyContinent(country, datacenterId) ==
  IF ~Truthy(datacenterId)
     \/ ~(IsStringV(country) /\ country.s \in DOMAIN COUNTRY_CONTINENT_MAP)
  THEN Pushed(<<>>)
  ELSE LET key == DatacenterKey(datacenterId) IN
       IF key = 0 THEN Pushed(<<>>)
       ELSE IF DATA_CENTER_MAP[key] # COUNTRY_CONTINENT_MAP[country.s]
       THEN Pushed(<<Issue("EQ-Device-024", WARNING,
                           "Country continent mismatch with datacenter continent",
                           "BidRequest.device.geo.country", Absent)>>)
       ELSE Pushed(<<>>)

validateCountryDatacenterMatch(country, datacenterId) ==
  IF ~Truthy(datacenterId)
     \/ ~(IsStringV(country) /\ country.s \in DOMAIN COUNTRY_CONTINENT_MAP)
  THEN Pushed(<<>>)
  ELSE LET key == DatacenterKey(datacenterId) IN
       IF key = 0 \/ DATA_CENTER_MAP[key] = "" THEN Pushed(<<>>)
       ELSE IF DATA_CENTER_MAP[key] # COUNTRY_CONTINENT_MAP[country.s]
       THEN Pushed(<<Issue("EQ-Device-024", WARNING,
                           "Country continent mismatch with datacenter continent",
                           "BidRequest.device.geo.country", Absent)>>)
       ELSE Pushed(<<>>)

\* if (root) { if (app && storeurl && bundle) ...; if (country && dc) ... }
CrossField(root) ==
  LET Both(store, geo) ==
        IF store.threw THEN Raised
        ELSE [threw |-> geo.threw, issues |-> store.issues \o geo.issues]
      Store(app, storeurl, bundle) ==
        IF Truthy(And3(app, storeurl, bundle))
        THEN validateStoreUrlAndBundle(storeurl, bundle) ELSE Pushed(<<>>)
      Geo(country, dc) ==
        IF Truthy(And2(country, dc))
        THEN validateCountryDatacenterMatch(country, dc) ELSE Pushed(<<>>)
      App(app) == Store(app, Get(app, "storeurl"), Get(app, "bundle"))
  IN IF ~Truthy(root) THEN Pushed(<<>>)
     ELSE Both(App(Get(root, "app")),
               Geo(OptGet(OptGet(OptGet(root, "device"), "geo"), "country"),
                   OptGet(OptGet(root, "ext"), "auctionDatacenterId")))

(***************************************************************************)
(* 2h. The summary                                                         *)
(***************************************************************************)

\* root.imp.some(imp => imp.audio?.mimes?.includes('audio/aac'))
HasAAC(root) ==
  Some(Get(root, "imp"), LAMBDA imp :
    LET mimes == OptGet(Get(imp, "audio"), "mimes") IN
    IF IsThrown(mimes) THEN Thrown
    ELSE IF IsNullish(mimes) THEN Undefined
    ELSE Includes(mimes, JStr("audio/aac")))

\* root.imp.some(imp => { if (!imp.native?.request) return false;
\*   try { return JSON.parse(...).assets?.some(a => a.video) } catch { false } })
HasVideoAd(root) ==
  Some(Get(root, "imp"), LAMBDA imp :
    LET request == OptGet(Get(imp, "native"), "request") IN
    If(Bang(request), JFalse,
       TryParsed(request, LAMBDA nativeRequest :
         LET assets == Get(nativeRequest, "assets") IN
         IF IsThrown(assets) THEN Thrown
         ELSE IF IsNullish(assets) THEN Undefined
         ELSE Some(assets, LAMBDA asset : Get(asset, "video")))))

\* The entries one inventory kind contributes to mediaFormats: [threw, out].
FormatEntries(format, root) ==
  LET Entries(aac, vid) ==
        IF IsThrown(aac) THEN [threw |-> TRUE, out |-> <<>>]
        ELSE IF Truthy(aac) THEN [threw |-> FALSE, out |-> <<"audio", "AAC">>]
        ELSE IF IsThrown(vid) THEN [threw |-> TRUE, out |-> <<>>]
        ELSE IF Truthy(vid) THEN [threw |-> FALSE, out |-> <<"native", "Video-Ad">>]
        ELSE [threw |-> FALSE, out |-> <<format>>]
      Mapped(hasImp) ==
        Entries(IF format = "audio" /\ hasImp THEN HasAAC(root) ELSE JFalse,
                IF format = "native" /\ hasImp THEN HasVideoAd(root) ELSE JFalse)
  IN Mapped(Truthy(OptGet(root, "imp")))

\* Array.from(ctx.inventory).map(...).flat()
RECURSIVE MediaFormats(_, _, _)
MediaFormats(inventory, root, i) ==
  LET Flat(e, rest) ==
        IF e.threw \/ rest.threw THEN [threw |-> TRUE, out |-> <<>>]
        ELSE [threw |-> FALSE, out |-> e.out \o rest.out]
  IN IF i > Len(inventory) THEN [threw |-> FALSE, out |-> <<>>]
     ELSE Flat(FormatEntries(inventory[i], root), MediaFormats(inventory, root, i + 1))

RequestTypeOf(mediaFormats) ==
  IF Len(mediaFormats) = 1
  THEN CASE mediaFormats[1] = "banner" -> "Banner"
         [] mediaFormats[1] = "video" -> "Video"
         [] mediaFormats[1] = "audio" -> "Audio"
         [] mediaFormats[1] = "native" -> "Native"
         [] OTHER -> "Unknown"
  ELSE IF Len(mediaFormats) > 1 THEN "Mixed" ELSE "Unknown"

\* DEVICE_TYPE[root?.device?.devicetype] || 'Unknown'
DeviceTypeLabel(dt) ==
  LET key == ToStringJS(dt) IN
  IF IsNumber(dt) /\ key \in DOMAIN DEVICE_TYPE THEN DEVICE_TYPE[key] ELSE "Unknown"

\* The summary of a result: [threw, summary].  geo is the value
\* root?.device?.geo?.country || 'N/A' (whatever truthy value the request
\* carries there).
Summarise(ctx) ==
  LET Summary(root, formats, imp) ==
        [threw |-> formats.threw,
         summary |->
           [requestType |-> RequestTypeOf(formats.out),
            mediaFormats |-> formats.out,
            impressions |-> IF IsArray(imp) THEN Len(imp.a) ELSE 0,
            platform |-> IF Truthy(OptGet(root, "app")) THEN "App"
                         ELSE IF Truthy(OptGet(root, "site")) THEN "Site"
                         ELSE "Unknown",
            deviceType |-> DeviceTypeLabel(OptGet(OptGet(root, "device"), "devicetype")),
            geo |-> Or2(OptGet(OptGet(OptGet(root, "device"), "geo"), "country"),
                        JStr("N/A"))]]
  IN Summary(ctx.root, MediaFormats(ctx.inventory, ctx.root, 1), OptGet(ctx.root, "imp"))

(***************************************************************************)
(* 2i. analyse                                                             *)
(***************************************************************************)

DefaultSummary ==
  [requestType |-> "Unknown", mediaFormats |-> <<>>, impressions |-> 0,
   platform |-> "Unknown", deviceType |-> "Unknown", geo |-> JStr("N/A")]

\* No result object: what a call that raised leaves its caller with.
NoBody ==
  [summary |-> DefaultSummary, issues |-> <<>>, request |-> Undefined, error |-> Absent]

NoContext ==
  [root |-> Undefined, inventory |-> <<>>, isCTV |-> FALSE, partnerProfile |-> Absent]

\* A parse-failure branch that reports the failure as a warning and leaves
\* the error field unset.
ParseFailureAsWarning(message) ==
  [summary |-> DefaultSummary,
   issues |-> <<[id |-> "json-parse", severity |-> WARNING,
                 message |-> "Invalid JSON: " \o message,
                 path |-> Absent, specRef |-> Absent]>>,
   request |-> Undefined,
   error |-> Absent]

\* The result object of the parse-failure branch (without its identity).
ParseFailure(message) ==
  [summary |-> DefaultSummary,
   issues |-> <<[id |-> "json-parse", severity |-> ERROR,
                 message |-> "Invalid JSON: " \o message,
                 path |-> Absent, specRef |-> Absent]>>,
   request |-> Undefined,
   error |-> "Invalid JSON: " \o message]

\* The steps of one evaluation of analyse's body, last first: the result
\* object once the rule pass, the cross-field validators and the summary
\* have run; the three of them on a built context; the context builder on
\* the located root; findBidRequest on the parsed value, or the
\* parse-failure branch.
EvaluateResult(root, c, pass, cross, sum, threw) ==
  [outcome |-> IF threw THEN "throw" ELSE "return",
   body |-> IF threw THEN NoBody
            ELSE [summary |-> sum.summary,
                  issues |-> pass.issues \o cross.issues,
                  request |-> pass.ctx.root, error |-> Absent],
   built |-> TRUE, ctx |-> c.ctx, after |-> pass.ctx, trace |-> pass.trace,
   ruleIssues |-> Len(pass.issues)]

EvaluateRan(root, c, pass, cross, sum) ==
  EvaluateResult(root, c, pass, cross, sum,
                 pass.threw \/ cross.threw \/ sum.threw)

EvaluateContext(root, c) ==
  IF c.threw
  THEN [outcome |-> "throw", body |-> NoBody,
        built |-> FALSE, ctx |-> NoContext, after |-> NoContext,
        trace |-> <<>>, ruleIssues |-> 0]
  ELSE EvaluateRan(root, c, RulePass(c.ctx), CrossField(root), Summarise(c.ctx))

EvaluateRoot(root, options) == EvaluateContext(root, BuildContext(root, options))

EvaluateParsed(parsed, options) ==
  IF ~parsed.ok
  THEN [outcome |-> "return", body |-> ParseFailure(parsed.error),
        built |-> FALSE, ctx |-> NoContext, after |-> NoContext,
        trace |-> <<>>, ruleIssues |-> 0]
  ELSE EvaluateRoot(findBidRequest(parsed.value), options)

\* What one evaluation of analyse's body past the cache lookup does:
\*   outcome   "return" or "throw" (an exception leaves analyse)
\*   body      the content of the result object it builds
\*   built     whether a context was built, and ctx, that context
\*   after     the context object as the call leaves it
\*   trace     the applies / validate calls of the rule pass
\*   ruleIssues  the number of issues the rule pass produced
Evaluate(jsonText, options) == EvaluateParsed(safeJsonParse(jsonText), options)

(***************************************************************************)
(* 2j. splitJsonObjects (utils.ts).  The file holds the function twice:    *)
(* the earlier definition is the character scan alone, the later one first *)
(* tries the whole input as a JSON array.  Which of the two a build ends   *)
(* up calling is not fixed by the file, so a call names the definition.    *)
(***************************************************************************)

\* text.trim()
Trim(s) == TrimRight(TrimLeft(s))

\* let depth = 0; let inString = false; let escape = false; let buffer = "";
\* const objects = [];
ScanStart ==
  [depth |-> 0, inString |-> FALSE, escape |-> FALSE, buffer |-> "",
   objects |-> <<>>]

\* ScanChar with no escape tracking: every quote toggles inString.
ScanCharNoEscape(st, char) ==
  LET inString == IF char = "\"" THEN ~st.inString ELSE st.inString
      depth == IF inString THEN st.depth
               ELSE IF char = "{" THEN st.depth + 1
               ELSE IF char = "}" THEN st.depth - 1 ELSE st.depth
      buffer == st.buffer \o char
      push == depth = 0 /\ HasNonSpace(buffer, 1)
  IN [depth |-> depth, inString |-> inString, escape |-> FALSE,
      buffer |-> IF push THEN "" ELSE buffer,
      objects |-> IF push THEN Append(st.objects, Trim(buffer)) ELSE st.objects]

\* The body of  for (const char of text) { ... }  on the scan state st.
ScanChar(st, char) ==
  LET inString == IF char = "\"" /\ ~st.escape THEN ~st.inString ELSE st.inString
      escape == char = "\\" /\ ~st.escape /\ inString
      depth == IF inString THEN st.depth
               ELSE IF char = "{" THEN st.depth + 1
               ELSE IF char = "}" THEN st.depth - 1
               ELSE st.depth
      buffer == st.buffer \o char
      push == depth = 0 /\ HasNonSpace(buffer, 1)
  IN [depth |-> depth, inString |-> inString, escape |-> escape,
      buffer |-> IF push THEN "" ELSE buffer,
      objects |-> IF push THEN Append(st.objects, Trim(buffer)) ELSE st.objects]

\* if (buffer.trim()) objects.push(buffer.trim()); return objects;
ScanEnd(st) ==
  IF HasNonSpace(st.buffer, 1) THEN Append(st.objects, Trim(st.buffer))
  ELSE st.objects

\* for (const char of text), from position i on: the characters lo..hi are
\* scanned in order, the range being halved to keep the evaluation shallow.
RECURSIVE ScanRange(_, _, _, _)
ScanRange(text, st, lo, hi) ==
  IF lo = hi THEN ScanChar(st, Ch(text, lo))
  ELSE LET mid == (lo + hi) \div 2
           Rest(half) == ScanRange(text, half, mid + 1, hi)
       IN Rest(ScanRange(text, st, lo, mid))

ScanFrom(text, st, i) ==
  IF i > Len(text) THEN st ELSE ScanRange(text, st, i, Len(text))

\* The array branch of the later definition:  if (trimmed.startsWith("[")
\* && trimmed.endsWith("]")) try { arr = JSON.parse(trimmed); if
\* (Array.isArray(arr)) return arr.map(obj => JSON.stringify(obj)) } catch {}
\* It yields [taken, objects]; taken is FALSE when the scan is to run.
ArrayBranch(text) ==
  LET Mapped(arr) == [taken |-> TRUE,
                      objects |-> [i \in 1..Len(arr.a) |-> Stringify(arr.a[i])]]
      Parsed(r) == IF r.ok /\ IsArray(r.v) THEN Mapped(r.v)
                   ELSE [taken |-> FALSE, objects |-> <<>>]
      Bracketed(trimmed) ==
        IF StartsWith(trimmed, "[") /\ StrEndsWith(trimmed, "]")
        THEN Parsed(JSONparse(trimmed))
        ELSE [taken |-> FALSE, objects |-> <<>>]
  IN Bracketed(Trim(text))

\* splitJsonObjects(text) as the earlier (1) or the later (2) definition.
Definitions == {1, 2}
splitJsonObjects(definition, text) ==
  LET Scanned == ScanEnd(ScanFrom(text, ScanStart, 1))
      Later(branch) == IF branch.taken THEN branch.objects ELSE Scanned
  IN IF definition = 1 THEN Scanned ELSE Later(ArrayBranch(text))

(***************************************************************************)
(* 3. The state machine: one process lifetime of the module.  A caller     *)
(* (the analysis page, the bulk runner, the compatibility layer) calls     *)
(* analyse with a text; the exported function takes options as well.  The  *)
(* engine is synchronous, so a call is one step.                           *)
(***************************************************************************)

\* The texts the callers submit.
Texts ==
  { "",
    "null",
    "42",
    "{malformed",
    "[1,2",
    "{\"a\":{\"b\":[1,2]}}",
    "{\"id\":7,\"imp\":[]}",
    "{\"id\":\"r\",\"imp\":[null]}",
    "{\"id\":\"r\",\"imp\":[{\"id\":\"1\",\"banner\":{\"format\":5}}]}",
    "{\"id\":\"r\",\"imp\":[],\"device\":{\"ip\":5}}",
    "{\"id\":\"r\",\"imp\":[{\"id\":\"1\",\"audio\":{\"mimes\":5}}]}",
    "{\"id\":\"r\",\"imp\":[],\"app\":{\"storeurl\":5,\"bundle\":\"com.y\"}}",
    "{\"id\":\"r\",\"imp\":[{\"id\":\"1\",\"banner\":{\"w\":300,\"h\":250}}],\"site\":{\"page\":\"https://a.com/x\",\"domain\":\"a.com\"},\"device\":{\"ua\":\"M\",\"ip\":\"1.2.3.4\",\"devicetype\":2},\"at\":1,\"tmax\":100}",
    "{\"id\":\"r\",\"imp\":[{\"id\":\"1\",\"video\":{\"mimes\":[\"video/mp4\"]}}],\"device\":{\"devicetype\":3}}",
    "{\"id\":\"r\",\"imp\":[{\"id\":\"1\",\"video\":{\"mimes\":[\"video/mp4\"]}}],\"device\":{\"devicetype\":5}}",
    "{\"id\":\"r\",\"imp\":[{\"id\":\"1\",\"video\":{\"mimes\":[\"video/mp4\"]}}],\"device\":{\"devicetype\":7}}",
    "{\"req\":{\"id\":\"r\",\"imp\":[{\"id\":\"1\",\"audio\":{\"mimes\":[\"audio/aac\"]}}]}}",
    "{\"id\":\"r\",\"imp\":[],\"app\":{\"storeurl\":\"https://play.google.com/store/apps/details?id=com.x\",\"bundle\":\"com.y\"},\"device\":{\"geo\":{\"country\":\"USA\"}},\"ext\":{\"auctionDatacenterId\":3}}",
    "{\"id\":\"r\",\"imp\":[{\"id\":\"1\",\"native\":{\"request\":\"{\\\"assets\\\":[{\\\"video\\\":{}}]}\"}},{\"id\":\"2\",\"qty\":{\"multiplier\":1},\"banner\":{}}],\"app\":{\"storeurl\":\"https://x.y\",\"bundle\":\"com.y\"},\"site\":{},\"device\":{\"devicetype\":9,\"geo\":{\"country\":\"DEU\"}},\"ext\":{\"auctionDatacenterId\":11}}" }

\* The texts of a session that repeats its calls.
SessionTexts ==
  { "{malformed",
    "42",
    "{\"id\":\"r\",\"imp\":[null]}",
    "{\"id\":\"r\",\"imp\":[{\"id\":\"1\",\"banner\":{\"w\":300,\"h\":250}}],\"site\":{\"page\":\"https://a.com/x\",\"domain\":\"a.com\"},\"device\":{\"ua\":\"M\",\"ip\":\"1.2.3.4\",\"devicetype\":2},\"at\":1,\"tmax\":100}" }

\* AnalyseOptions: forceCTV?: boolean, partnerProfile?: 'sharethrough'.
OptionsValues ==
  [forceCTV : {Undefined, JFalse, JTrue}, partnerProfile : {Absent, "sharethrough"}]

\* The options of a call that passes none: options = {}.
NoOptions == [forceCTV |-> Undefined, partnerProfile |-> Absent]

\* Requests the callers submit without options (analyzer.analyze), by the
\* part of the request they vary: the device's ip, the country and the
\* auction datacenter (both written as JSON), the app's store URL and bundle
\* (both written as JSON).
DeviceIpText(ip) ==
  "{\"id\":\"r\",\"imp\":[],\"device\":{\"ip\":\"" \o ip \o "\"}}"
GeoText(country, datacenter) ==
  "{\"id\":\"r\",\"imp\":[],\"device\":{\"geo\":{\"country\":" \o country
    \o "}},\"ext\":{\"auctionDatacenterId\":" \o datacenter \o "}}"
StoreText(storeurl, bundle) ==
  "{\"id\":\"r\",\"imp\":[],\"app\":{\"storeurl\":" \o storeurl
    \o ",\"bundle\":" \o bundle \o "}}"

IPs ==
  {a \o "." \o b \o ".3." \o d : a \in {"0", "255", "256"}, b \in {"1", "x"},
                                  d \in {"4", "0", "999"}}
  \cup {"", "1.2.3", "1.2.3.4.5", "1.2.3.4 ", "1..3.4",
        "2001:db8::1", "::1", "::", "1:2:3:4:5:6:7:8",
        "2001:0db8:85a3:0000:0000:8a2e:0370:7334", "2001:DB8:0:0:0:0:0:A",
        "fe80::1", "1::", "::ffff:1", "1:2:3:4:5:6:7", "1:2:3:4:5:6:7:8:9",
        "12345::1", "g::1", "1:::2", "1::2::3"}
Countries == {"\"USA\"", "\"DEU\"", "\"JPN\"", "\"usa\"", "\"XYZ\""}
Datacenters == {"3", "5", "13", "2", "7", "0", "\"3\""}
StoreUrls ==
  {"\"https://play.google.com/store/apps/details?id=com.x\"",
   "\"https://apps.apple.com/us/app/id123\"",
   "\"https://apps.apple.com/gb/app/some-app/id123\"",
   "\"https://channelstore.roku.com/details/123/some-channel\"",
   "\"https://channelstore.roku.com/details/abc\"",
   "\"https://x.y\"",
   "5"}
Bundles == {"\"com.x\"", "\"com.y\"", "\"123\"", "123"}

ScenarioTexts ==
  { "{\"id\":\"r\",\"imp\":[{\"id\":\"1\",\"banner\":{\"w\":300,\"h\":250}}],\"site\":{\"id\":\"s\"}}",
    "{\"id\":\"r\",\"imp\":[{\"id\":\"1\",\"banner\":{\"w\":300,\"h\":250}}],\"site\":{\"id\":\"s\"},\"device\":{}}",
    "{\"id\":\"r\",\"imp\":[],\"app\":{},\"site\":{}}",
    "{\"id\":\"r\",\"imp\":[{\"id\":\"1\",\"banner\":{\"w\":300,\"h\":250}}],\"app\":{\"id\":\"a\"},\"site\":{\"id\":\"s\"},\"at\":1}",
    "{\"id\":\"r\",\"imp\":[null],\"app\":{},\"site\":{}}",
    "{\"id\":\"r\",\"imp\":[],\"app\":{},\"site\":{},\"device\":{\"ip\":5}}",
    "{\"id\":\"r\",\"imp\":[{\"id\":\"1\",\"video\":{\"minduration\":10,\"maxduration\":15,\"rqddurs\":[10,20]}}]}",
    "{\"id\":\"r\",\"imp\":[{\"id\":\"1\",\"video\":{\"mimes\":[\"video/mp4\"],\"minduration\":\"x\",\"rqddurs\":[-1]}}]}",
    "{\"id\":\"r\",\"imp\":[{\"id\":\"1\",\"video\":{\"mimes\":[\"video/mp4\"],\"minduration\":10,\"maxduration\":60}}]}",
    "{\"id\":\"r\",\"imp\":[{\"id\":\"1\",\"video\":{\"mimes\":[\"video/mp4\"],\"rqddurs\":[15,30]}}]}",
    "{\"id\":\"r\",\"imp\":[{\"id\":\"1\",\"video\":{\"maxduration\":15,\"rqddurs\":[10,20]}},{\"id\":\"2\",\"banner\":{\"format\":5}}]}" }

\* Documents that wrap their request objects under several keys.
LocatorTexts ==
  { "{\"w\":{\"id\":\"a\",\"imp\":[]},\"v\":{\"id\":\"b\",\"imp\":[]}}",
    "{\"x\":{\"id\":\"a\",\"imp\":[]},\"0\":{\"id\":\"b\",\"imp\":[]}}",
    "{\"10\":{\"id\":\"a\",\"imp\":[]},\"9\":{\"id\":\"b\",\"imp\":[]}}",
    "{\"01\":{\"id\":\"a\",\"imp\":[]},\"1\":{\"id\":\"b\",\"imp\":[]}}",
    "{\"id\":5,\"imp\":[],\"n\":[{\"id\":\"a\"},{\"k\":{\"id\":\"b\",\"imp\":[]}},{\"id\":\"c\",\"imp\":[]}]}",
    "{\"id\":\"a\",\"imp\":{},\"n\":[1,\"s\",null,{\"imp\":[]}]}" }

\* Requests of one or two impressions, each impression one of ImpBodies.
ImpBodies ==
  { "\"banner\":{\"w\":300,\"h\":250}",
    "\"banner\":{\"w\":300,\"h\":250},\"bidfloor\":-1",
    "\"video\":{\"mimes\":[]}",
    "\"video\":{\"mimes\":[\"video/mp4\"],\"minduration\":10,\"maxduration\":15,\"rqddurs\":[10]},\"secure\":2,\"bidfloor\":0,\"bidfloorcur\":\"USD\"",
    "\"secure\":2" }
OneImp(a) == "{\"id\":\"r\",\"imp\":[{\"id\":\"1\"," \o a \o "}]}"
TwoImps(a, b) ==
  "{\"id\":\"r\",\"imp\":[{\"id\":\"1\"," \o a \o "},{\"id\":\"2\"," \o b \o "}]}"
ImpTexts ==
  {OneImp(a) : a \in ImpBodies} \cup {TwoImps(a, b) : a \in ImpBodies, b \in ImpBodies}

RequestTexts ==
  ScenarioTexts
  \cup LocatorTexts
  \cup ImpTexts
  \cup {DeviceIpText(ip) : ip \in IPs}
  \cup {GeoText(country, datacenter) : country \in Countries, datacenter \in Datacenters}
  \cup {StoreText(storeurl, bundle) : storeurl \in StoreUrls, bundle \in Bundles}

\* Calls in a process lifetime, calls in a session, and calls without
\* options.
MaxCalls == 1
MaxSessionCalls == 3
MaxRequestCalls == 1

RECURSIVE Spaces(_)
Spaces(n) == IF n <= 0 THEN "" ELSE " " \o Spaces(n - 1)

\* JSON.stringify(value, null, 2).
RECURSIVE StringifyIndent(_, _)
RECURSIVE StringifyIndentItems(_, _, _, _)
StringifyIndentItems(items, i, isObj, indent) ==
  IF i > Len(items) THEN ""
  ELSE Spaces(indent)
       \o (IF isObj
           THEN Quote(items[i][1]) \o ": " \o StringifyIndent(items[i][2], indent)
           ELSE StringifyIndent(items[i], indent))
       \o (IF i < Len(items) THEN ",\n" ELSE "\n")
       \o StringifyIndentItems(items, i + 1, isObj, indent)

StringifyIndent(v, indent) ==
  CASE v.t = "object" ->
         IF v.o = <<>> THEN "{}"
         ELSE "{\n" \o StringifyIndentItems(OwnMembers(v.o), 1, TRUE, indent + 2)
              \o Spaces(indent) \o "}"
    [] v.t = "array" ->
         IF v.a = <<>> THEN "[]"
         ELSE "[\n" \o StringifyIndentItems(v.a, 1, FALSE, indent + 2)
              \o Spaces(indent) \o "]"
    [] v.t = "string" -> Quote(v.s)
    [] OTHER -> ToStringJS(v)

\* let formatted = obj; try { formatted = JSON.stringify(JSON.parse(obj), null, 2) } catch {}
Formatted(obj) ==
  LET Of(parsed) == IF parsed.ok THEN StringifyIndent(parsed.value, 0) ELSE obj
  IN Of(safeJsonParse(obj))

\* The texts of the analysis page: the example the editor starts with (the
\* example of exampleData.ts, abridged), what the user types, and what
\* Format turns them into.
ExampleText ==
  "{\"id\":\"ctv-request-001\",\"at\":2,\"imp\":[],\"tmax\":100,\"cur\":[\"USD\"],\"regs\":{\"ext\":{\"gdpr\":1}}}"
EditorTexts ==
  { "{\"id\":\"a\",\"imp\":[]}",
    "{\"id\":\"c\",\"imp\":[null]}",
    " " }
PageTexts ==
  {ExampleText} \cup EditorTexts \cup {Formatted(text) : text \in {ExampleText} \cup EditorTexts}

\* The example the earlier page starts with (the display example of
\* exampleData.ts, abridged), and the texts of that page.
DisplayText ==
  "{\"id\":\"80ce\",\"at\":1,\"cur\":[\"USD\"],\"imp\":[{\"id\":\"1\",\"bidfloor\":0.03,\"bidfloorcur\":\"USD\",\"banner\":{\"h\":250,\"w\":300}}]}"
IndexPageTexts == PageTexts \cup {DisplayText, Formatted(DisplayText)}

\* The objects of a multi-request input, the pieces the earlier definition
\* of splitJsonObjects cuts a JSON array into, and the longest input.
BulkObjects ==
  { "{\"id\":\"a\",\"imp\":[]}",
    "{\"id\":\"b\",\"imp\":[],\"site\":{}}",
    "{\"id\":\"c\",\"imp\":[null]}" }
SegmentTexts == BulkObjects \cup {"[", ",", "]"}
CallerTexts == SegmentTexts \cup IndexPageTexts
MaxObjects == 3

\* The inputs handed to runAnalysis: up to MaxObjects objects separated by
\* whitespace, and the same objects as a JSON array.
BulkSequences == UNION {[1..n -> BulkObjects] : n \in 1..MaxObjects}

RECURSIVE Joined(_, _, _)
Joined(parts, sep, i) ==
  IF i > Len(parts) THEN ""
  ELSE parts[i] \o (IF i < Len(parts) THEN sep ELSE "") \o Joined(parts, sep, i + 1)

Spaced(parts) == Joined(parts, "\n", 1)
Arrayed(parts) == "[" \o Joined(parts, ",", 1) \o "]"

BulkInputs ==
  {Spaced(parts) : parts \in BulkSequences} \cup {Arrayed(parts) : parts \in BulkSequences}

\* Evaluate, tabulated over the inputs.
Evaluations ==
  [jsonText \in Texts |->
    [forceCTV \in {Undefined, JFalse, JTrue} |->
      [partnerProfile \in {Absent, "sharethrough"} |->
        Evaluate(jsonText, [forceCTV |-> forceCTV, partnerProfile |-> partnerProfile])]]]

\* Evaluate without options, tabulated over the requests submitted so.
RequestEvaluations ==
  [jsonText \in RequestTexts \cup CallerTexts |-> Evaluate(jsonText, NoOptions)]

Evaluated(jsonText, options) ==
  IF jsonText \in Texts
  THEN Evaluations[jsonText][options.forceCTV][options.partnerProfile]
  ELSE RequestEvaluations[jsonText]

\* parseCache.get / parseCache.set on the Map, a function from the texts
\* that have an entry.
MapHas(map, key) == key \in DOMAIN map
MapGet(map, key) == map[key]
\* A cache of one entry: storing a result drops every other entry.
MapSetEvicting(map, key, value) == [k \in {key} |-> value]

MapSet(map, key, value) ==
  [k \in DOMAIN map \cup {key} |-> IF k = key THEN value ELSE map[k]]

\* The object a call builds: its content, and oid, the identity of the
\* allocation (two objects are the same object when oid agrees).
NewObject(oid, body) ==
  [oid |-> oid, summary |-> body.summary, issues |-> body.issues,
   request |-> body.request, error |-> body.error]

NoResult == NewObject(0, NoBody)

\* The content of a result, for structural comparison.
Content(result) == [result EXCEPT !.oid = 0]

NoRun ==
  [hit |-> FALSE, built |-> FALSE, ctx |-> NoContext, after |-> NoContext,
   trace |-> <<>>, ruleIssues |-> 0]

\* analyse with the entry stored before the rules run: a call that throws
\* leaves an empty result under its text.
analyseStoringThrown(cache, oid, jsonText, options) ==
  LET Did(e) ==
        [hit |-> FALSE, built |-> e.built, ctx |-> e.ctx, after |-> e.after,
         trace |-> e.trace, ruleIssues |-> e.ruleIssues]
      Miss(e) ==
        IF e.outcome = "throw"
        THEN [outcome |-> "throw", result |-> NoResult,
              cache |-> MapSet(cache, jsonText, NoResult), run |-> Did(e)]
        ELSE [outcome |-> "return", result |-> NewObject(oid, e.body),
              cache |-> MapSet(cache, jsonText, NewObject(oid, e.body)),
              run |-> Did(e)]
  IN
  IF MapHas(cache, jsonText)
  THEN [outcome |-> "return", result |-> MapGet(cache, jsonText), cache |-> cache,
        run |-> [NoRun EXCEPT !.hit = TRUE]]
  ELSE Miss(Evaluated(jsonText, options))

\* analyse(jsonText, options) on a cache: what the caller gets (outcome,
\* result), the cache afterwards, and what the call did (run).
analyse(cache, oid, jsonText, options) ==
  LET Did(e) ==
        [hit |-> FALSE, built |-> e.built, ctx |-> e.ctx, after |-> e.after,
         trace |-> e.trace, ruleIssues |-> e.ruleIssues]
      Stored(e, result) ==
        [outcome |-> "return", result |-> result,
         cache |-> MapSet(cache, jsonText, result), run |-> Did(e)]
      Miss(e) ==
        IF e.outcome = "throw"
        THEN [outcome |-> "throw", result |-> NoResult, cache |-> cache, run |-> Did(e)]
        ELSE Stored(e, NewObject(oid, e.body))
  IN
  IF MapHas(cache, jsonText)
  THEN [outcome |-> "return", result |-> MapGet(cache, jsonText), cache |-> cache,
        run |-> [NoRun EXCEPT !.hit = TRUE]]
  ELSE Miss(Evaluated(jsonText, options))

(***************************************************************************)
(* 3b. analyzer.analyze and runAnalysis (runAnalysis.ts).                  *)
(***************************************************************************)

\* Formatted, tabulated over the texts runAnalysis is handed.
Formats == [obj \in CallerTexts |-> Formatted(obj)]

\* Whether JSON.parse accepts the text, tabulated likewise.
Parses == [text \in CallerTexts |-> safeJsonParse(text).ok]

\* JSON.parse(text), tabulated likewise: the value, or the exception.
JSONParses ==
  [text \in CallerTexts |->
    LET parsed == safeJsonParse(text) IN IF parsed.ok THEN parsed.value ELSE Thrown]

\* splitJsonObjects, tabulated over the inputs of runAnalysis.
Segments ==
  [definition \in Definitions |->
    [input \in BulkInputs |-> splitJsonObjects(definition, input)]]

\* The legacy form of an issue (analyzer.analyze).
LegacyIssue(issue) ==
  [severity |-> IF issue.severity = "error" THEN "Error"
                ELSE IF issue.severity = "warning" THEN "Warning" ELSE "Info",
   message |-> issue.message,
   path |-> IF issue.path = Absent \/ issue.path = "" THEN "unknown" ELSE issue.path]

LegacyIssues(issues) == [i \in 1..Len(issues) |-> LegacyIssue(issues[i])]

\* One element of objects.map: analyzer.analyze(obj) on the cache, then the
\* entry { analysis, issues, text }.
AnalysisEntry(call, obj) ==
  [analysis |-> call.result, issues |-> LegacyIssues(call.result.issues),
   text |-> Formats[obj]]

\* objects.map((obj) => ...) from element i on: acc holds the outcome, the
\* entries built, the cache, the next identity, the analyse calls made and
\* what the latest did.
RECURSIVE MapObjects(_, _, _)
MapObjects(objects, i, acc) ==
  LET After(call) ==
        IF call.outcome = "throw"
        THEN [acc EXCEPT !.outcome = "throw", !.entries = <<>>,
                         !.calls = Append(acc.calls,
                                     [jsonText |-> objects[i], options |-> NoOptions,
                                      outcome |-> "throw", result |-> NoResult]),
                         !.run = call.run]
        ELSE MapObjects(objects, i + 1,
               [outcome |-> "return",
                entries |-> Append(acc.entries, AnalysisEntry(call, objects[i])),
                cache |-> call.cache,
                oid |-> IF call.run.hit THEN acc.oid ELSE acc.oid + 1,
                calls |-> Append(acc.calls,
                            [jsonText |-> objects[i], options |-> NoOptions,
                             outcome |-> "return", result |-> call.result]),
                run |-> call.run])
  IN IF i > Len(objects) THEN acc
     ELSE After(analyse(acc.cache, acc.oid, objects[i], NoOptions))

\* runAnalysis(input), with the given definition of splitJsonObjects.
runAnalysis(definition, input, cache, oid) ==
  MapObjects(Segments[definition][input], 1,
             [outcome |-> "return", entries |-> <<>>, cache |-> cache, oid |-> oid,
              calls |-> <<>>, run |-> NoRun])

\* No runAnalysis call made yet.
NoBulk == [called |-> FALSE, definition |-> 0, input |-> "", outcome |-> "return",
           entries |-> <<>>]

\* No splitJsonObjects call made yet.
NoSplit ==
  [phase |-> "idle", definition |-> 0, text |-> "", pos |-> 0,
   st |-> ScanStart, objects |-> <<>>]

(***************************************************************************)
(* 3c. The analysis page (Index.tsx, the useReducer version).  The page    *)
(* state is the reducer's state; timers holds the callbacks handed to      *)
(* setTimeout that have not run yet, each with the text its closure        *)
(* captured; clicks counts the analyses started.                           *)
(***************************************************************************)

initialState ==
  [mode |-> "single", isLoading |-> FALSE, jsonText |-> ExampleText,
   analysisResult |-> JNull, validationIssues |-> <<>>,
   fileName |-> "", bulkRequests |-> <<>>]

appReducer(state, action) ==
  CASE action.type = "SET_MODE" ->
         [initialState EXCEPT !.jsonText = "", !.mode = action.payload]
    [] action.type = "START_ANALYSIS" ->
         [state EXCEPT !.isLoading = TRUE]
    [] action.type = "SET_JSON_TEXT" ->
         [state EXCEPT !.jsonText = action.payload, !.analysisResult = JNull,
                       !.validationIssues = <<>>]
    [] action.type = "SET_SINGLE_RESULT" ->
         [state EXCEPT !.isLoading = FALSE,
                       !.analysisResult = action.payload.analysis,
                       !.validationIssues = action.payload.issues]
    [] action.type = "SET_BULK_DATA" ->
         [state EXCEPT !.isLoading = FALSE, !.mode = "bulk",
                       !.fileName = action.payload.fileName,
                       !.bulkRequests = action.payload.requests,
                       !.jsonText = "", !.analysisResult = JNull,
                       !.validationIssues = <<>>]
    [] action.type = "CLEAR_SINGLE" ->
         [state EXCEPT !.jsonText = "", !.analysisResult = JNull,
                       !.validationIssues = <<>>]
    [] OTHER -> state

\* The page as mounted.
NoPage == [state |-> initialState, timers |-> <<>>, clicks |-> 0]

\* Analyses one page starts.
MaxClicks == 2

VARIABLES
  parseCache,   \* the module-level Map: text -> result object
  history,      \* the calls made so far: text, options, outcome, result
  run,          \* what the latest call did past the cache lookup
  nextOid,      \* the identity the next allocated result object gets
  split,        \* the splitJsonObjects call in progress, or its return
  bulk,         \* the latest runAnalysis call: input, outcome, entries
  page          \* the analysis page: reducer state and pending timers

vars == <<parseCache, history, run, nextOid, split, bulk, page>>

Init ==
  /\ parseCache = <<>>
  /\ history = <<>>
  /\ run = NoRun
  /\ nextOid = 1
  /\ split = NoSplit
  /\ bulk = NoBulk
  /\ page = NoPage

Analyse(jsonText, options) ==
  LET Returned(r) ==
        /\ parseCache' = r.cache
        /\ history' = Append(history, [jsonText |-> jsonText, options |-> options,
                                       outcome |-> r.outcome, result |-> r.result])
        /\ run' = r.run
        /\ nextOid' = IF r.outcome = "return" /\ ~r.run.hit THEN nextOid + 1
                      ELSE nextOid
        /\ UNCHANGED <<split, bulk, page>>
  IN Returned(analyse(parseCache, nextOid, jsonText, options))

Next ==
  \E jsonText \in Texts, options \in OptionsValues :
    Len(history) < MaxCalls /\ Analyse(jsonText, options)

Spec == Init /\ [][Next]_vars

NextSession ==
  \E jsonText \in SessionTexts, options \in OptionsValues :
    Len(history) < MaxSessionCalls /\ Analyse(jsonText, options)

SpecSession == Init /\ [][NextSession]_vars

\* analyzer.analyze(jsonText): analyse(jsonText), options defaulted.
NextRequests ==
  \E jsonText \in RequestTexts :
    Len(history) < MaxRequestCalls /\ Analyse(jsonText, NoOptions)

SpecRequests == Init /\ [][NextRequests]_vars

\* The inputs handed to splitJsonObjects: objects whose strings hold braces,
\* escaped quotes and escaped backslashes, alone and in whitespace-separated
\* pairs; a JSON array; inputs with a stray brace.
SplitObjects ==
  { "{\"a\":\"}\"}",
    "{\"b\":\"\\\"{\"}",
    "{\"c\":\"\\\\\"}",
    "{\"d\":{\"e\":\"{\\\\\\\"}\"}}" }
Separators == {" ", "\n"}
SplitTexts ==
  SplitObjects
  \cup {a \o sep \o b : a \in SplitObjects, b \in SplitObjects, sep \in Separators}
  \cup { "[{\"a\":1},{\"b\":2}]",
         "[{\"a\":1},",
         "} {\"a\":1} {\"b\":2}",
         "{\"a\":1}} {\"b\":2}",
         "" }

\* splitJsonObjects(text) is called: the later definition returns from its
\* array branch when that applies; otherwise the scan starts.
SplitCall(definition, text) ==
  LET Entered(branch) ==
        split' = IF branch.taken
                 THEN [phase |-> "returned", definition |-> definition,
                       text |-> text, pos |-> 0, st |-> ScanStart,
                       objects |-> branch.objects]
                 ELSE [phase |-> "scanning", definition |-> definition,
                       text |-> text, pos |-> 1, st |-> ScanStart,
                       objects |-> <<>>]
  IN /\ split.phase = "idle"
     /\ Entered(IF definition = 2 THEN ArrayBranch(text)
                ELSE [taken |-> FALSE, objects |-> <<>>])
     /\ UNCHANGED <<parseCache, history, run, nextOid, bulk, page>>

\* One iteration of  for (const char of text).
SplitStep ==
  /\ split.phase = "scanning" /\ split.pos <= Len(split.text)
  /\ split' = [split EXCEPT !.st = ScanChar(split.st, Ch(split.text, split.pos)),
                            !.pos = split.pos + 1]
  /\ UNCHANGED <<parseCache, history, run, nextOid, bulk, page>>

\* The loop is over: the rest of the buffer is pushed and objects returned.
SplitReturn ==
  /\ split.phase = "scanning" /\ split.pos > Len(split.text)
  /\ split' = [split EXCEPT !.phase = "returned", !.objects = ScanEnd(split.st)]
  /\ UNCHANGED <<parseCache, history, run, nextOid, bulk, page>>

NextSplit ==
  \/ \E definition \in Definitions, text \in SplitTexts : SplitCall(definition, text)
  \/ SplitStep
  \/ SplitReturn

SpecSplit == Init /\ [][NextSplit]_vars

\* runAnalysis(input) is called.
RunAnalysis(definition, input) ==
  LET Returned(r) ==
        /\ bulk' = [called |-> TRUE, definition |-> definition, input |-> input,
                    outcome |-> r.outcome, entries |-> r.entries]
        /\ parseCache' = r.cache
        /\ history' = history \o r.calls
        /\ run' = r.run
        /\ nextOid' = r.oid
        /\ UNCHANGED <<split, page>>
  IN /\ ~bulk.called
     /\ Returned(runAnalysis(definition, input, parseCache, nextOid))

NextBulk ==
  \E definition \in Definitions, input \in BulkInputs : RunAnalysis(definition, input)

SpecBulk == Init /\ [][NextBulk]_vars

\* dispatch(action)
Dispatch(action) == [page EXCEPT !.state = appReducer(page.state, action)]

Engine == <<parseCache, history, run, nextOid, split, bulk>>

\* The Analyze button (disabled while loading or with no text) is clicked:
\* handleAnalyze.
HandleAnalyze ==
  /\ page.state.mode = "single"
  /\ ~page.state.isLoading /\ page.state.jsonText # ""
  /\ page.clicks < MaxClicks
  /\ page' = IF ~HasNonSpace(page.state.jsonText, 1)
             THEN [page EXCEPT !.clicks = page.clicks + 1]
             ELSE [Dispatch([type |-> "START_ANALYSIS"]) EXCEPT
                     !.timers = Append(page.timers, page.state.jsonText),
                     !.clicks = page.clicks + 1]
  /\ UNCHANGED Engine

\* The callback of handleAnalyze runs, 300 ms after its click:
\* analyzer.analyze on the text the closure captured, then SET_SINGLE_RESULT.
\* When analyze throws nothing is dispatched.
AnalysisTimer ==
  LET text == Head(page.timers)
      Completed(r) ==
        /\ parseCache' = r.cache
        /\ history' = Append(history, [jsonText |-> text, options |-> NoOptions,
                                       outcome |-> r.outcome, result |-> r.result])
        /\ run' = r.run
        /\ nextOid' = IF r.outcome = "return" /\ ~r.run.hit THEN nextOid + 1
                      ELSE nextOid
        /\ page' = IF r.outcome = "throw"
                   THEN [page EXCEPT !.timers = Tail(page.timers)]
                   ELSE [Dispatch([type |-> "SET_SINGLE_RESULT",
                                   payload |-> [analysis |-> r.result,
                                                issues |-> LegacyIssues(r.result.issues)]])
                         EXCEPT !.timers = Tail(page.timers)]
        /\ UNCHANGED <<split, bulk>>
  IN /\ page.timers # <<>>
     /\ Completed(analyse(parseCache, nextOid, text, NoOptions))

\* The user edits the text: the editor's onTextChange.
TextChange(text) ==
  /\ page.state.mode = "single"
  /\ page' = Dispatch([type |-> "SET_JSON_TEXT", payload |-> text])
  /\ UNCHANGED Engine

\* An example is chosen from the dropdown: handleLoadExample.
HandleLoadExample ==
  /\ page.state.mode = "single"
  /\ page' = Dispatch([type |-> "SET_JSON_TEXT", payload |-> Formats[ExampleText]])
  /\ UNCHANGED Engine

\* The Format button: handleFormat.
HandleFormat ==
  /\ page.state.mode = "single"
  /\ page' = IF page.state.jsonText # "" /\ Parses[page.state.jsonText]
             THEN Dispatch([type |-> "SET_JSON_TEXT",
                            payload |-> Formats[page.state.jsonText]])
             ELSE page
  /\ UNCHANGED Engine

\* The clear button.
ClearSingle ==
  /\ page.state.mode = "single"
  /\ page' = Dispatch([type |-> "CLEAR_SINGLE"])
  /\ UNCHANGED Engine

\* The header's mode buttons.
SetMode(mode) ==
  /\ page' = Dispatch([type |-> "SET_MODE", payload |-> mode])
  /\ UNCHANGED Engine

NextIndex ==
  \/ HandleAnalyze
  \/ AnalysisTimer
  \/ \E text \in EditorTexts : TextChange(text)
  \/ HandleLoadExample
  \/ HandleFormat
  \/ ClearSingle
  \/ \E mode \in {"single", "bulk"} : SetMode(mode)

SpecIndex == Init /\ [][NextIndex]_vars

\* The timers the page has set do run.
SpecIndexFair == SpecIndex /\ WF_vars(AnalysisTimer)

(***************************************************************************)
(* 3d. The analysis page that enhances the summary (part_007): the state   *)
(* of its useState hooks is kept in page.state.                            *)
(***************************************************************************)

\* summary.k and summary.k = v on the summary object of a result.
SummaryGet(summary, k) == IF k \in DOMAIN summary THEN summary[k] ELSE Undefined
SummarySet(summary, k, v) == (k :> v) @@ summary

\* v[0]
ElementZero(v) ==
  CASE IsThrown(v) -> Thrown
    [] IsNullish(v) -> Thrown
    [] IsArray(v) -> IF v.a = <<>> THEN Undefined ELSE v.a[1]
    [] IsStringV(v) -> IF v.s = "" THEN Undefined ELSE JStr(SubSeq(v.s, 1, 1))
    [] IsObject(v) -> LookupKey(v.o, "0", 1)
    [] OTHER -> Undefined

\* The steps of the enhancement inside the try block of handleAnalyze.  Each
\* yields the summary as the step leaves it and whether the step threw.
Enhanced(summary) == [summary |-> summary, thrown |-> FALSE]
Caught(summary) == [summary |-> summary, thrown |-> TRUE]

\* if (!summary.timeoutMs && parsedRequest.tmax) summary.timeoutMs = ...
TimeoutStep(summary, tmax, missing) ==
  IF IsThrown(missing) THEN Caught(summary)
  ELSE IF Truthy(missing) THEN Enhanced(SummarySet(summary, "timeoutMs", tmax))
  ELSE Enhanced(summary)

EnhanceTimeout(summary, parsedRequest) ==
  TimeoutStep(summary, Get(parsedRequest, "tmax"),
              And2(Bang(SummaryGet(summary, "timeoutMs")), Get(parsedRequest, "tmax")))

\* if (!summary.currency && parsedRequest.cur && parsedRequest.cur.length > 0)
\*   summary.currency = parsedRequest.cur[0]
CurrencyStep(summary, cur, missing) ==
  IF IsThrown(missing) THEN Caught(summary)
  ELSE IF Truthy(missing) THEN Enhanced(SummarySet(summary, "currency", ElementZero(cur)))
  ELSE Enhanced(summary)

EnhanceCurrency(summary, parsedRequest) ==
  CurrencyStep(summary, Get(parsedRequest, "cur"),
               And3(Bang(SummaryGet(summary, "currency")), Get(parsedRequest, "cur"),
                    Gt(LengthOf(Get(parsedRequest, "cur")), JNum(0))))

\* `${firstImp.bidfloor}${floorCur ? ` ${floorCur}` : ''}`
BidFloorText(bidfloor, floorCur) ==
  ToStringJS(bidfloor) \o (IF Truthy(floorCur) THEN " " \o ToStringJS(floorCur) ELSE "")

\* if (firstImp.bidfloor && !summary.bidFloor) summary.bidFloor = ...
FloorStep(summary, bidfloor, bidfloorcur) ==
  IF Truthy(And2(bidfloor, Bang(SummaryGet(summary, "bidFloor"))))
  THEN SummarySet(summary, "bidFloor",
         JStr(BidFloorText(bidfloor,
                Or3(bidfloorcur, SummaryGet(summary, "currency"), JStr("")))))
  ELSE summary

\* if (!summary.currency && firstImp.bidfloorcur) summary.currency = ...
FallbackStep(summary, bidfloorcur) ==
  IF Truthy(And2(Bang(SummaryGet(summary, "currency")), bidfloorcur))
  THEN SummarySet(summary, "currency", bidfloorcur)
  ELSE summary

\* The body of if (parsedRequest.imp && parsedRequest.imp.length > 0):
\* reading a property of a null or undefined first impression throws.
FirstImpStep(summary, firstImp) ==
  IF IsThrown(firstImp) \/ IsNullish(firstImp) THEN Caught(summary)
  ELSE Enhanced(FallbackStep(FloorStep(summary, Get(firstImp, "bidfloor"),
                                       Get(firstImp, "bidfloorcur")),
                             Get(firstImp, "bidfloorcur")))

ImpStep(summary, imp, present) ==
  IF IsThrown(present) THEN Caught(summary)
  ELSE IF Truthy(present) THEN FirstImpStep(summary, ElementZero(imp))
  ELSE Enhanced(summary)

EnhanceBidFloor(summary, parsedRequest) ==
  ImpStep(summary, Get(parsedRequest, "imp"),
          And2(Get(parsedRequest, "imp"),
               Gt(LengthOf(Get(parsedRequest, "imp")), JNum(0))))

\* if (parsedRequest.source && parsedRequest.source.schain &&
\*     Array.isArray(parsedRequest.source.schain.nodes)) summary.schainNodes = ...
SchainStep(summary, nodes, chained) ==
  IF IsThrown(chained) THEN Caught(summary)
  ELSE IF Truthy(chained) THEN Enhanced(SummarySet(summary, "schainNodes", LengthOf(nodes)))
  ELSE Enhanced(summary)

EnhanceSchain(summary, parsedRequest) ==
  SchainStep(summary, Get(Get(Get(parsedRequest, "source"), "schain"), "nodes"),
             And3(Get(parsedRequest, "source"),
                  Get(Get(parsedRequest, "source"), "schain"),
                  IsArr(Get(Get(Get(parsedRequest, "source"), "schain"), "nodes"))))

\* privacySignals.push(name) when the signal is present.
Signal(present, name) == IF Truthy(present) THEN <<name>> ELSE <<>>

PrivacyStep(summary, regs, user) ==
  IF IsThrown(regs) \/ IsThrown(user) THEN Caught(summary)
  ELSE Enhanced(SummarySet(summary, "privacySignals",
         Signal(SEq(OptGet(OptGet(regs, "ext"), "gdpr"), JNum(1)), "GDPR Applicable")
         \o Signal(OptGet(OptGet(user, "ext"), "consent"), "TCF Consent String")
         \o Signal(OptGet(OptGet(regs, "ext"), "us_privacy"), "CCPA/US Privacy")
         \o Signal(OptGet(regs, "gpp"), "Global Privacy Platform (GPP)")))

EnhancePrivacy(summary, parsedRequest) ==
  PrivacyStep(summary, Get(parsedRequest, "regs"), Get(parsedRequest, "user"))

\* JSON.parse(jsonText) at the head of the try block.
EnhanceParsed(summary, parsedRequest) ==
  IF IsThrown(parsedRequest) THEN Caught(summary) ELSE Enhanced(summary)

\* The next statement of the try block, skipped once a statement has thrown.
Then(done, Step(_, _), parsedRequest) ==
  IF done.thrown THEN done ELSE Step(done.summary, parsedRequest)

\* The try block: the summary object after it, whether it ran to its end or
\* was left through the catch.
EnhanceSummary(summary, parsedRequest) ==
  Then(Then(Then(Then(Then(EnhanceParsed(summary, parsedRequest),
                           EnhanceTimeout, parsedRequest),
                      EnhanceCurrency, parsedRequest),
                 EnhanceBidFloor, parsedRequest),
            EnhanceSchain, parsedRequest),
       EnhancePrivacy, parsedRequest).summary

\* The page as mounted: the display example in the editor.
IndexPageMounted ==
  [state |-> [initialState EXCEPT !.jsonText = Formats[DisplayText]],
   timers |-> <<>>, clicks |-> 0]

InitIndexPage ==
  /\ parseCache = <<>>
  /\ history = <<>>
  /\ run = NoRun
  /\ nextOid = 1
  /\ split = NoSplit
  /\ bulk = NoBulk
  /\ page = IndexPageMounted

\* The Analyze button (disabled while loading or with no text) is clicked.
IndexPageAnalyze ==
  /\ page.state.mode = "single"
  /\ ~page.state.isLoading /\ page.state.jsonText # ""
  /\ page.clicks < MaxClicks
  /\ page' = IF ~HasNonSpace(page.state.jsonText, 1)
             THEN [page EXCEPT !.clicks = page.clicks + 1]
             ELSE [page EXCEPT !.state.isLoading = TRUE,
                               !.timers = Append(page.timers, page.state.jsonText),
                               !.clicks = page.clicks + 1]
  /\ UNCHANGED Engine

\* The callback of handleAnalyze, 300 ms after its click: analyzer.analyze
\* on the captured text, the enhancement of the summary of the object it
\* returned (the object the cache holds), then the three setters.  When
\* analyze throws none of them runs.
IndexPageTimer ==
  LET text == Head(page.timers)
      Installed(r, analysis) ==
        /\ history' = Append(history, [jsonText |-> text, options |-> NoOptions,
                                       outcome |-> r.outcome, result |-> r.result])
        /\ run' = r.run
        /\ nextOid' = IF r.outcome = "return" /\ ~r.run.hit THEN nextOid + 1
                      ELSE nextOid
        /\ parseCache' = IF r.outcome = "throw" THEN r.cache
                         ELSE MapSet(r.cache, text, analysis)
        /\ page' = IF r.outcome = "throw"
                   THEN [page EXCEPT !.timers = Tail(page.timers)]
                   ELSE [page EXCEPT !.state.analysisResult = analysis,
                                     !.state.validationIssues = LegacyIssues(r.result.issues),
                                     !.state.isLoading = FALSE,
                                     !.timers = Tail(page.timers)]
        /\ UNCHANGED <<split, bulk>>
      Completed(r) ==
        Installed(r, IF r.outcome = "return" /\ r.result.error \in {Absent, ""}
                     THEN [r.result EXCEPT
                             !.summary = EnhanceSummary(r.result.summary, JSONParses[text])]
                     ELSE r.result)
  IN /\ page.timers # <<>>
     /\ Completed(analyse(parseCache, nextOid, text, NoOptions))

\* The editor's onTextChange: setJsonText.
IndexPageTextChange(text) ==
  /\ page.state.mode = "single"
  /\ page' = [page EXCEPT !.state.jsonText = text]
  /\ UNCHANGED Engine

\* handleLoadExample(key)
IndexPageLoadExample(example) ==
  /\ page.state.mode = "single"
  /\ page' = [page EXCEPT !.state.jsonText = Formats[example],
                          !.state.analysisResult = JNull,
                          !.state.validationIssues = <<>>]
  /\ UNCHANGED Engine

\* handleFormat
IndexPageFormat ==
  /\ page.state.mode = "single"
  /\ page' = IF page.state.jsonText # "" /\ Parses[page.state.jsonText]
             THEN [page EXCEPT !.state.jsonText = Formats[page.state.jsonText]]
             ELSE page
  /\ UNCHANGED Engine

\* handleClear
IndexPageClear ==
  /\ page.state.mode = "single"
  /\ page' = [page EXCEPT !.state.jsonText = "",
                          !.state.analysisResult = JNull,
                          !.state.validationIssues = <<>>]
  /\ UNCHANGED Engine

\* The header's mode buttons: setMode.
IndexPageSetMode(mode) ==
  /\ page' = [page EXCEPT !.state.mode = mode]
  /\ UNCHANGED Engine

NextIndexPage ==
  \/ IndexPageAnalyze
  \/ IndexPageTimer
  \/ \E text \in EditorTexts : IndexPageTextChange(text)
  \/ \E example \in {DisplayText, ExampleText} : IndexPageLoadExample(example)
  \/ IndexPageFormat
  \/ IndexPageClear
  \/ \E mode \in {"single", "bulk"} : IndexPageSetMode(mode)

SpecIndexPage == InitIndexPage /\ [][NextIndexPage]_vars

\* The latest call.
Called == history # <<>>
Last == history[Len(history)]

(***************************************************************************)
(* 4. Properties.  Requests tabulates, for each text, whether it is valid  *)
(* JSON, the parser's diagnostic when it is not, and the bid request       *)
(* findBidRequest locates in it (null when there is none).                 *)
(***************************************************************************)

Requests ==
  [jsonText \in Texts \cup RequestTexts \cup CallerTexts |->
    LET parsed == safeJsonParse(jsonText) IN
    [valid |-> parsed.ok,
     value |-> IF parsed.ok THEN parsed.value ELSE Undefined,
     diagnostic |-> IF parsed.ok THEN "" ELSE parsed.error,
     root |-> IF parsed.ok THEN findBidRequest(parsed.value) ELSE Undefined]]

ValidJSON(jsonText) == Requests[jsonText].valid
Located(jsonText) == ValidJSON(jsonText) /\ Truthy(Requests[jsonText].root)
MissingRoot(jsonText) == ValidJSON(jsonText) /\ ~Truthy(Requests[jsonText].root)

\* C1: analyse never throws: every call made so far, whatever its text and
\* options, returned a result instead of letting an exception escape.
C1_NeverThrows ==
  \A i \in 1..Len(history) : history[i].outcome = "return"

\* C2: a text that is valid JSON but holds no bid request makes analyse
\* run on (a context is built, the rules run) and return, for every
\* options value, a result whose issues are exactly the one
\* 'missing-request' Error.
C2_MissingRoot ==
  (Called /\ MissingRoot(Last.jsonText)) =>
    /\ Last.outcome = "return"
    /\ Len(Last.result.issues) = 1
    /\ Last.result.issues[1].id = "missing-request"
    /\ Last.result.issues[1].severity = "error"
    /\ (~run.hit => run.built /\ run.trace # <<>>)

\* C3: a text that is not valid JSON makes analyse return without building
\* a context or running a rule; the result has a non-empty error string, an
\* undefined request, the default summary (Unknown, no formats, 0, Unknown,
\* Unknown, N/A) and exactly one issue, of Error severity, whose message
\* contains the parser's diagnostic.
C3_ParseFailure ==
  (Called /\ ~ValidJSON(Last.jsonText)) =>
    /\ Last.outcome = "return"
    /\ ~run.built /\ run.trace = <<>>
    /\ Last.result.error # Absent /\ Last.result.error # ""
    /\ Last.result.request = Undefined
    /\ Last.result.summary =
         [requestType |-> "Unknown", mediaFormats |-> <<>>, impressions |-> 0,
          platform |-> "Unknown", deviceType |-> "Unknown", geo |-> JStr("N/A")]
    /\ Len(Last.result.issues) = 1
    /\ Last.result.issues[1].severity = "error"
    /\ Requests[Last.jsonText].diagnostic # ""
    /\ StrIncludes(Last.result.issues[1].message, Requests[Last.jsonText].diagnostic)

\* C3's case: a call on a malformed text went through the parse-failure
\* branch and returned.
C3_Witness ==
  /\ Called /\ ~run.hit
  /\ Last.jsonText = "{malformed"
  /\ Last.outcome = "return"
  /\ Last.result.error = "Invalid JSON: Unexpected token m in JSON at position 1"

\* What a call with this text and options returns when nothing is cached.
OnMiss(jsonText, options) == Evaluated(jsonText, options)

\* C4: memo correctness: whatever earlier calls put in the cache, the
\* result a call returns is structurally the result a cache miss computes
\* for its text and options.
C4_MemoCorrect ==
  \A i \in 1..Len(history) :
    history[i].outcome = "return" =>
      /\ OnMiss(history[i].jsonText, history[i].options).outcome = "return"
      /\ Content(history[i].result) =
           NewObject(0, OnMiss(history[i].jsonText, history[i].options).body)

\* C5: result memoizer: a call with a text that an earlier call completed
\* for returns the very same result object as that call (same identity,
\* for successful and parse-failure results alike), and a cache entry,
\* once stored, is never removed or replaced.
C5_Memoizer ==
  /\ [](\A i, j \in 1..Len(history) :
          (i < j /\ history[i].jsonText = history[j].jsonText
                 /\ history[i].outcome = "return") =>
            /\ history[j].outcome = "return"
            /\ history[j].result = history[i].result)
  /\ [][\A jsonText \in DOMAIN parseCache :
          /\ jsonText \in DOMAIN parseCache'
          /\ parseCache'[jsonText] = parseCache[jsonText]]_vars

\* C5's case: a text analysed successfully, then a malformed text, then
\* the first text again under other options: the third call is served the
\* first call's object while the cache holds both entries.
C5_Witness ==
  /\ Len(history) = 3
  /\ history[1].jsonText = history[3].jsonText
  /\ history[1].options # history[3].options
  /\ history[1].outcome = "return" /\ history[1].result.error = Absent
  /\ history[2].jsonText = "{malformed" /\ history[2].outcome = "return"
  /\ run.hit
  /\ history[3].result.oid = history[1].result.oid
  /\ DOMAIN parseCache = {history[1].jsonText, "{malformed"}

\* C6: determinism: any two calls of the sequence made with the same text
\* and the same options end the same way and return structurally identical
\* results (same issues in the same order, same summary).
C6_Deterministic ==
  \A i, j \in 1..Len(history) :
    (history[i].jsonText = history[j].jsonText
       /\ history[i].options = history[j].options) =>
      /\ history[i].outcome = history[j].outcome
      /\ Content(history[i].result) = Content(history[j].result)

\* The rules of a sequence of rule sets, one after the other.
RECURSIVE Flatten(_, _)
Flatten(sets, i) ==
  IF i > Len(sets) THEN <<>> ELSE sets[i] \o Flatten(sets, i + 1)

\* The rule pass evaluated the rule: it called the rule's applies, or its
\* validate when it has no applies.
RuleEvaluated(rule, trace) ==
  \E k \in 1..Len(trace) :
    /\ trace[k].id = rule.id
    /\ trace[k].op = IF rule.hasApplies THEN "applies" ELSE "validate"

\* The rule's applies holds (or is absent) and its validate is falsy.
Applicable(rule) ==
  ~rule.hasApplies \/ (~IsThrown(rule.applies) /\ Truthy(rule.applies))
Failing(rule) ==
  Applicable(rule) /\ ~IsThrown(rule.validate) /\ ~Truthy(rule.validate)

\* C7: exhaustiveness: for a located request the rule pass evaluates every
\* rule of every set, validates every rule that applies, and the
\* rule-produced issues of the result are exactly one issue per failing
\* rule: no rule keeps a later rule from being evaluated or reported.
C7_Exhaustive ==
  (Called /\ ~run.hit /\ Located(Last.jsonText)) =>
    LET rules == Flatten(allRuleSets(run.ctx), 1)
        failing == SelectSeq(rules, Failing)
    IN
    /\ run.built
    /\ \A k \in 1..Len(rules) : RuleEvaluated(rules[k], run.trace)
    /\ \A k \in 1..Len(rules) :
         Applicable(rules[k]) =>
           \E e \in 1..Len(run.trace) :
             run.trace[e].id = rules[k].id /\ run.trace[e].op = "validate"
    /\ Last.outcome = "return"
    /\ run.ruleIssues = Len(failing)
    /\ \A k \in 1..Len(failing) : Last.result.issues[k] = IssueOf(failing[k])

\* The catalogue's rules (their metadata does not depend on the context).
Catalogue == Flatten(allRuleSets(NoContext), 1)

\* The ids of the rules that declare an applies predicate.
RulesWithApplies ==
  {Catalogue[k].id : k \in {j \in 1..Len(Catalogue) : Catalogue[j].hasApplies}}
HasApplies(id) == id \in RulesWithApplies

\* C8: applicability gating: in the rule pass, validate of a rule that has
\* an applies predicate is called only directly after that rule's applies
\* returned true; a rule whose applies returned false is never validated
\* and contributes no issue to the result.
C8_Gating ==
  /\ \A k \in 1..Len(run.trace) :
       (run.trace[k].op = "validate" /\ HasApplies(run.trace[k].id)) =>
         /\ k > 1
         /\ run.trace[k - 1].op = "applies"
         /\ run.trace[k - 1].id = run.trace[k].id
         /\ ~IsThrown(run.trace[k - 1].ret) /\ Truthy(run.trace[k - 1].ret)
  /\ \A k \in 1..Len(run.trace) :
       (run.trace[k].op = "applies" /\ ~Truthy(run.trace[k].ret)) =>
         /\ \A e \in 1..Len(run.trace) :
              ~(run.trace[e].op = "validate" /\ run.trace[e].id = run.trace[k].id)
         /\ (Called /\ Last.outcome = "return") =>
              \A i \in 1..Len(Last.result.issues) :
                Last.result.issues[i].id # run.trace[k].id

\* C8's case: a pass over a banner request for a site, which skipped the
\* video rules (applies false) and validated the site rules (applies true),
\* one of which failed and is reported.
C8_Witness ==
  /\ Called /\ ~run.hit /\ Last.outcome = "return"
  /\ \E k \in 1..Len(run.trace) :
       /\ run.trace[k].op = "applies" /\ run.trace[k].id = "EQ-Imp-048"
       /\ run.trace[k].ret = JFalse
  /\ \E k \in 2..Len(run.trace) :
       /\ run.trace[k].op = "validate" /\ run.trace[k].id = "Core-Site-001"
       /\ run.trace[k].ret = JFalse
       /\ run.trace[k - 1].op = "applies" /\ run.trace[k - 1].ret = JTrue
  /\ \E i \in 1..Len(Last.result.issues) : Last.result.issues[i].id = "Core-Site-001"

\* The order the sets are documented to run in: core, impression, app,
\* site, device, video, audio, native, banner, CTV, DOOH, partner, privacy,
\* source, advanced; declaration order within a set.
DocumentedOrder ==
  Flatten(<< coreRules(NoContext), impressionRules(NoContext), appRules(NoContext),
             siteRules(NoContext), deviceRules(NoContext), videoRules(NoContext),
             audioRules(NoContext), nativeRules(NoContext), bannerRules(NoContext),
             ctvRules(NoContext), doohRules(NoContext), sharethroughRules(NoContext),
             privacyRules(NoContext), sourceRules(NoContext), advancedRules(NoContext) >>, 1)

\* The place of each rule in the documented order.
DocumentedPosition ==
  [id \in {DocumentedOrder[k].id : k \in 1..Len(DocumentedOrder)} |->
    CHOOSE k \in 1..Len(DocumentedOrder) : DocumentedOrder[k].id = id]

\* Where an issue belongs in a result: a rule's issue at the rule's place
\* in the documented order, then the store-URL issue, then the
\* geo/datacenter issue; the parse-failure issue stands alone.  (The
\* catalogue has a rule named EQ-Device-024 too; its validate is the
\* constant true, so an issue of that name is the cross-field validator's.)
Position(id) ==
  IF id \in {"EQ-App-009", "EQ-App-010"} THEN Len(DocumentedOrder) + 1
  ELSE IF id = "EQ-Device-024" THEN Len(DocumentedOrder) + 2
  ELSE IF id \in DOMAIN DocumentedPosition THEN DocumentedPosition[id]
  ELSE 0

\* C9: issue ordering: in every result the rule-produced issues appear in
\* catalogue order (documented set order, declaration order within a set),
\* every cross-field issue comes after all of them, and the store-URL issue
\* comes before the geo/datacenter issue.
C9_IssueOrder ==
  \A i \in 1..Len(history) :
    history[i].outcome = "return" =>
      \A a, b \in 1..Len(history[i].result.issues) :
        a < b => Position(history[i].result.issues[a].id)
                   < Position(history[i].result.issues[b].id)

\* C9's case: a result with issues of several rule sets (core, app,
\* device) followed by the store-URL issue and the geo/datacenter issue.
C9_Witness ==
  /\ Called /\ ~run.hit /\ Last.outcome = "return"
  /\ \E a, b, c, d, e \in 1..Len(Last.result.issues) :
       /\ a < b /\ b < c /\ c < d /\ d < e
       /\ Last.result.issues[a].id = "Core-BR-003"
       /\ Last.result.issues[b].id = "Core-App-003"
       /\ Last.result.issues[c].id = "EQ-Device-035"
       /\ Last.result.issues[d].id = "EQ-App-009"
       /\ Last.result.issues[e].id = "EQ-Device-024"
       /\ e = Len(Last.result.issues)

\* C10: CTV auto-detection: with forceCTV set the context of a located
\* request is CTV; with forceCTV not set it is CTV exactly when
\* device.devicetype is a code the device-type table labels 'Connected TV'
\* or 'Set-top Box'.
C10_AutoDetectCTV ==
  (Called /\ ~run.hit /\ run.built /\ Located(Last.jsonText)) =>
    LET dt == OptGet(OptGet(run.ctx.root, "device"), "devicetype") IN
    IF Truthy(Last.options.forceCTV) THEN run.ctx.isCTV
    ELSE run.ctx.isCTV <=> DeviceTypeLabel(dt) \in {"Connected TV", "Set-top Box"}

\* The located request of the latest call, and whether it carries an
\* object under a key.
LastRoot == Requests[Last.jsonText].root
HasObject(root, key) == IsObject(Get(root, key))

\* C11: summary platform: for a located request the summary's platform is
\* 'App' when an app object is present and no site object, 'Site' when a
\* site object is present and no app object, and 'Unknown' otherwise (both
\* present, or neither).
C11_Platform ==
  (Called /\ Located(Last.jsonText) /\ Last.outcome = "return") =>
    Last.result.summary.platform =
      IF HasObject(LastRoot, "app") /\ ~HasObject(LastRoot, "site") THEN "App"
      ELSE IF HasObject(LastRoot, "site") /\ ~HasObject(LastRoot, "app") THEN "Site"
      ELSE "Unknown"

\* The media formats present among the impressions of a located request:
\* a format is present when some impression carries it (dooh: a qty object).
FormatOrder == <<"banner", "video", "audio", "native", "dooh">>
KeyOfFormat(format) == IF format = "dooh" THEN "qty" ELSE format
FormatPresent(root, format) ==
  /\ IsArray(Get(root, "imp"))
  /\ \E i \in 1..Len(Get(root, "imp").a) :
       LET held == OptGet(Get(root, "imp").a[i], KeyOfFormat(format)) IN
       ~IsThrown(held) /\ Truthy(held)
FormatsPresent(root) ==
  {FormatOrder[k] : k \in {j \in 1..Len(FormatOrder) : FormatPresent(root, FormatOrder[j])}}
Capitalized(format) ==
  CASE format = "banner" -> "Banner" [] format = "video" -> "Video"
    [] format = "audio" -> "Audio" [] format = "native" -> "Native"
    [] OTHER -> "Dooh"

\* C12: summary requestType: with exactly one media format present among
\* the impressions the requestType is that format's capitalized name, with
\* more than one it is 'Mixed', with none it is 'Unknown'; an audio-only or
\* native-only request is never 'Mixed'.
C12_RequestType ==
  (Called /\ Located(Last.jsonText) /\ Last.outcome = "return") =>
    LET present == FormatsPresent(LastRoot) IN
    Last.result.summary.requestType =
      IF present = {} THEN "Unknown"
      ELSE IF \E format \in present : present = {format}
      THEN Capitalized(CHOOSE format \in present : TRUE)
      ELSE "Mixed"

\* The formats of a set, listed in the fixed order banner, video, audio,
\* native, dooh.
RECURSIVE InFixedOrder(_, _)
InFixedOrder(present, k) ==
  IF k > Len(FormatOrder) THEN <<>>
  ELSE (IF FormatOrder[k] \in present THEN <<FormatOrder[k]>> ELSE <<>>)
       \o InFixedOrder(present, k + 1)

\* C13: summary mediaFormats: for a located request mediaFormats lists the
\* inventory types present in the fixed order banner, video, audio, native,
\* dooh (absent ones skipped), whatever the order in which the impressions
\* carry them, and holds no other entry.
C13_MediaFormats ==
  (Called /\ Located(Last.jsonText) /\ Last.outcome = "return") =>
    Last.result.summary.mediaFormats = InFixedOrder(FormatsPresent(LastRoot), 1)

\* Scenario A: a located site request (no app object) with one impression
\* that carries a banner object, and no device member.
ScenarioA(root) ==
  /\ HasObject(root, "site") /\ ~HasObject(root, "app")
  /\ IsUndefined(Get(root, "device"))
  /\ IsArray(Get(root, "imp")) /\ Len(Get(root, "imp").a) = 1
  /\ FormatsPresent(root) = {"banner"}

\* The issues that report the device object itself as missing.
ReportsMissingDevice(issue) == issue.path = "BidRequest.device"

\* C14: Scenario A: for a located site request with one banner impression
\* and no device object, analyse returns a result whose issues contain one
\* that reports the missing device object with severity Warning, whose
\* platform is 'Site' and whose mediaFormats is ['banner'].
C14_ScenarioA ==
  (Called /\ Located(Last.jsonText) /\ ScenarioA(LastRoot)) =>
    /\ Last.outcome = "return"
    /\ Last.result.summary.platform = "Site"
    /\ Last.result.summary.mediaFormats = <<"banner">>
    /\ \E i \in 1..Len(Last.result.issues) :
         /\ ReportsMissingDevice(Last.result.issues[i])
         /\ Last.result.issues[i].severity = WARNING

\* What the code yields in Scenario A: the summary of the claim, and the
\* missing device reported once, by EQ-BR-002, with severity Error.
C14_MissingDeviceIsError ==
  (Called /\ Located(Last.jsonText) /\ ScenarioA(LastRoot)) =>
    /\ Last.outcome = "return"
    /\ Last.result.summary.platform = "Site"
    /\ Last.result.summary.mediaFormats = <<"banner">>
    /\ \E i \in 1..Len(Last.result.issues) :
         /\ Last.result.issues[i].id = "EQ-BR-002"
         /\ Last.result.issues[i].severity = ERROR
    /\ \A i \in 1..Len(Last.result.issues) :
         ReportsMissingDevice(Last.result.issues[i]) =>
           Last.result.issues[i].severity = ERROR

\* The issues of the app/site exclusivity rules.
ExclusivityIssue(issue) ==
  issue.id \in {"Core-BR-005", "Core-BR-006"} /\ issue.severity = ERROR

\* C15: Scenario B: every located request that has both an app object and a
\* site object yields an Error-severity issue of the app/site exclusivity
\* rule, whatever the rest of the request contains.
C15_ScenarioB ==
  (Called /\ Located(Last.jsonText)
     /\ HasObject(LastRoot, "app") /\ HasObject(LastRoot, "site")) =>
    /\ Last.outcome = "return"
    /\ \E i \in 1..Len(Last.result.issues) : ExclusivityIssue(Last.result.issues[i])

\* Scenario B over the calls that return: both exclusivity rules fire.
C15_ScenarioBReturned ==
  (Called /\ Located(Last.jsonText) /\ Last.outcome = "return"
     /\ HasObject(LastRoot, "app") /\ HasObject(LastRoot, "site")) =>
    \A id \in {"Core-BR-005", "Core-BR-006"} :
      \E i \in 1..Len(Last.result.issues) :
        Last.result.issues[i].id = id /\ Last.result.issues[i].severity = ERROR

\* Scenario D: an impression whose video object carries minduration or
\* maxduration together with a non-empty rqddurs list.
DurationsConflict(imp) ==
  LET v == OptGet(imp, "video") IN
  /\ IsObject(v)
  /\ ~IsUndefined(Get(v, "minduration")) \/ ~IsUndefined(Get(v, "maxduration"))
  /\ IsArray(Get(v, "rqddurs")) /\ Len(Get(v, "rqddurs").a) > 0
ScenarioD(root) ==
  /\ IsArray(Get(root, "imp"))
  /\ \E i \in 1..Len(Get(root, "imp").a) : DurationsConflict(Get(root, "imp").a[i])
MutualExclusivityIssue(issue) ==
  issue.id = "video-durations" /\ issue.severity = ERROR

\* C16: Scenario D: every located request with a video impression that
\* carries minduration/maxduration together with a non-empty rqddurs list
\* yields the Error-severity 'video-durations' issue, whether or not the
\* duration values are individually valid.
C16_ScenarioD ==
  (Called /\ Located(Last.jsonText) /\ ScenarioD(LastRoot)) =>
    /\ Last.outcome = "return"
    /\ \E i \in 1..Len(Last.result.issues) :
         MutualExclusivityIssue(Last.result.issues[i])

\* Scenario D over the calls that return: the issue is reported exactly
\* when some impression is in conflict.
C16_ScenarioDReturned ==
  (Called /\ Located(Last.jsonText) /\ Last.outcome = "return") =>
    (ScenarioD(LastRoot) <=>
       \E i \in 1..Len(Last.result.issues) :
         MutualExclusivityIssue(Last.result.issues[i]))

\* The store URL / bundle issues of a result, in order.
StoreIssues(issues) ==
  SelectSeq(issues, LAMBDA issue : issue.id \in {"EQ-App-009", "EQ-App-010"})

\* The outcome the three storefronts' patterns give for a store URL and a
\* bundle: "" when the first matching pattern's embedded id equals the
\* bundle and the bundle fits that vendor's format, EQ-App-009 when a pattern
\* matches but the id or the format disagrees, EQ-App-010 when no pattern
\* matches (no pattern matches a value that is not a string).
StoreVerdict(storeurl, bundle) ==
  IF ~IsStringV(storeurl) THEN "EQ-App-010"
  ELSE LET map == STORE_URL_MAP(storeurl.s, ToStringJS(bundle))
           h == FirstStoreMatch(map)
       IN IF h = <<0, 0>> THEN "EQ-App-010"
          ELSE IF map[h[1]].bundleOk
                  /\ StrictEq(JStr(map[h[1]].matches[h[2]].id), bundle)
          THEN ""
          ELSE "EQ-App-009"

\* Whether the request has an app with a truthy storeurl and bundle.
HasStoreUrlAndBundle(root) ==
  /\ Truthy(Get(root, "app"))
  /\ Truthy(Get(Get(root, "app"), "storeurl"))
  /\ Truthy(Get(Get(root, "app"), "bundle"))

StoreIssuesAsClaimed(root, issues) ==
  LET found == StoreIssues(issues) IN
  IF ~HasStoreUrlAndBundle(root) THEN found = <<>>
  ELSE LET verdict == StoreVerdict(Get(Get(root, "app"), "storeurl"),
                                   Get(Get(root, "app"), "bundle")) IN
       IF verdict = "" THEN found = <<>>
       ELSE /\ Len(found) = 1
            /\ found[1].id = verdict
            /\ found[1].severity = ERROR

\* C17: store URL / bundle validator: it runs only when the located request
\* has a truthy app.storeurl and app.bundle, and it appends exactly one of:
\* nothing (the first matching storefront pattern's id equals the bundle and
\* the bundle fits the vendor's format), one Error EQ-App-009 (a pattern
\* matches but the id or format disagrees), one Error EQ-App-010 (no
\* pattern of the three vendors matches); it never appends both.
C17_StoreUrlAndBundle ==
  (Called /\ Located(Last.jsonText)) =>
    /\ HasStoreUrlAndBundle(LastRoot) => Last.outcome = "return"
    /\ Last.outcome = "return" => StoreIssuesAsClaimed(LastRoot, Last.result.issues)

\* The validator over store URLs that are strings, on the calls that return.
C17_StringStoreUrl ==
  (Called /\ Located(Last.jsonText) /\ Last.outcome = "return") =>
    StoreIssuesAsClaimed(LastRoot, Last.result.issues)

\* The continents the tables give for a declared country and an auction
\* datacenter id ("" when the table has no entry, or no known continent).
CountryContinent(country) ==
  IF IsStringV(country) /\ country.s \in DOMAIN COUNTRY_CONTINENT_MAP
  THEN COUNTRY_CONTINENT_MAP[country.s] ELSE ""
DatacenterContinent(datacenterId) ==
  IF DatacenterKey(datacenterId) = 0 THEN ""
  ELSE DATA_CENTER_MAP[DatacenterKey(datacenterId)]

\* Both continents are known and they differ.
ContinentsDisagree(root) ==
  LET country == OptGet(OptGet(OptGet(root, "device"), "geo"), "country")
      datacenterId == OptGet(OptGet(root, "ext"), "auctionDatacenterId")
  IN /\ ~IsThrown(country) /\ ~IsThrown(datacenterId)
     /\ CountryContinent(country) # ""
     /\ DatacenterContinent(datacenterId) # ""
     /\ CountryContinent(country) # DatacenterContinent(datacenterId)

GeoIssues(issues) ==
  SelectSeq(issues, LAMBDA issue : issue.id = "EQ-Device-024")

\* C18: geo / datacenter validator: a Warning EQ-Device-024 is present in
\* the issues of a result if and only if the declared country is in the
\* country table, the auction datacenter id is in the datacenter table with
\* a known continent, and the two continents differ; in every other case no
\* EQ-Device-024 issue is emitted, and it is never an Error.
C18_CountryDatacenter ==
  (Called /\ Located(Last.jsonText) /\ Last.outcome = "return") =>
    LET found == GeoIssues(Last.result.issues) IN
    IF ContinentsDisagree(LastRoot)
    THEN Len(found) = 1 /\ found[1].severity = WARNING
    ELSE found = <<>>

\* A call on a request whose country and datacenter continents are known
\* and differ, and whose result carries the warning.
C18_Witness ==
  /\ Called /\ Located(Last.jsonText) /\ Last.outcome = "return"
  /\ ContinentsDisagree(LastRoot)
  /\ GeoIssues(Last.result.issues) # <<>>

OctetInRange(p) ==
  /\ Len(p) \in 1..3 /\ AllIn(p, Digits)
  /\ (IF Len(p) = 3
      THEN 100 * DigitVal(Ch(p, 1)) + 10 * DigitVal(Ch(p, 2)) + DigitVal(Ch(p, 3))
      ELSE 0) <= 255
DottedQuad(s) ==
  LET parts == SplitOn(s, ".") IN
  Len(parts) = 4 /\ \A i \in 1..4 : OctetInRange(parts[i])

\* Colon-separated groups of 1-4 hex digits: the groups of s ("" has none),
\* and whether each of them is well formed.
HexGroups(s) == IF s = "" THEN <<>> ELSE SplitOn(s, ":")
HexGroupsOk(s) ==
  \A i \in 1..Len(HexGroups(s)) :
    Len(HexGroups(s)[i]) \in 1..4 /\ AllIn(HexGroups(s)[i], HexDigits)

\* The positions at which "::" occurs in s.
Collapses(s) == {i \in 1..(Len(s) - 1) : SubSeq(s, i, i + 1) = "::"}

\* An IPv6 address: eight groups, or one "::" standing for the groups left
\* out, with at most seven groups around it.
Ipv6Address(s) ==
  \/ Collapses(s) = {} /\ Len(HexGroups(s)) = 8 /\ HexGroupsOk(s)
  \/ \E i \in Collapses(s) :
       /\ Collapses(s) = {i}
       /\ HexGroupsOk(SubSeq(s, 1, i - 1))
       /\ HexGroupsOk(SubSeq(s, i + 2, Len(s)))
       /\ Len(HexGroups(SubSeq(s, 1, i - 1)))
            + Len(HexGroups(SubSeq(s, i + 2, Len(s)))) <= 7

LastIp == OptGet(OptGet(LastRoot, "device"), "ip")
PassesValidIp(issues) ==
  \A i \in 1..Len(issues) : issues[i].id # "Core-Device-005"

\* C20: IP validation: device.ip passes the 'valid IP address' rule
\* (Core-Device-005) when it is four dot-separated octets each in 0..255, or
\* an IPv6 address of colon-separated groups of 1-4 hex digits including the
\* '::' collapse forms (for example 2001:db8::1), and fails it otherwise.
C20_IpValidation ==
  (Called /\ Located(Last.jsonText) /\ IsStringV(LastIp)) =>
    /\ Last.outcome = "return"
    /\ PassesValidIp(Last.result.issues)
         <=> (DottedQuad(LastIp.s) \/ Ipv6Address(LastIp.s))

\* The rule on addresses written without a collapse, and on ::1 and ::.
C20_WithoutCollapse ==
  (Called /\ Located(Last.jsonText) /\ IsStringV(LastIp)
     /\ (Collapses(LastIp.s) = {} \/ LastIp.s \in {"::1", "::"})) =>
    /\ Last.outcome = "return"
    /\ PassesValidIp(Last.result.issues)
         <=> (DottedQuad(LastIp.s) \/ Ipv6Address(LastIp.s))

(***************************************************************************)
(* The splitter (utils.ts)                                                 *)
(***************************************************************************)

\* The number of backslashes that end right before position i.
RECURSIVE BackslashRun(_, _)
BackslashRun(text, i) ==
  IF i > 1 /\ Ch(text, i - 1) = "\\" THEN 1 + BackslashRun(text, i - 1) ELSE 0

\* The number of quotes before position i that no backslash escapes.
RECURSIVE QuotesBefore(_, _)
QuotesBefore(text, i) ==
  IF i <= 1 THEN 0
  ELSE QuotesBefore(text, i - 1)
       + (IF Ch(text, i - 1) = "\"" /\ BackslashRun(text, i - 1) % 2 = 0
          THEN 1 ELSE 0)

\* The character at position i lies inside a string literal: between an
\* opening quote and its closing quote, the closing quote included.
InsideString(text, i) == QuotesBefore(text, i) % 2 = 1

\* The scan step that reads a character inside a string literal.
ScansInsideString ==
  /\ split.phase = "scanning" /\ split.pos <= Len(split.text)
  /\ InsideString(split.text, split.pos)

\* The call has returned the parts of a whitespace-separated sequence.
IntactSegments ==
  /\ \A a \in SplitObjects :
       split.text = a => split.objects = <<a>>
  /\ \A a \in SplitObjects, b \in SplitObjects, sep \in Separators :
       split.text = a \o sep \o b => split.objects = <<a, b>>

\* C22: while the scan reads a character inside a string literal the brace
\* depth does not change, and every object of a whitespace-separated sequence
\* of valid objects is returned as one intact segment.
C22_StringHandling ==
  /\ [][ScansInsideString => split'.st.depth = split.st.depth]_vars
  /\ [](split.phase = "returned" => IntactSegments)

\* C22 witness: two objects whose strings hold an escaped quote, a brace and
\* an escaped backslash were scanned to the end and returned as two segments.
C22_Witness ==
  /\ split.phase = "returned"
  /\ split.text = "{\"b\":\"\\\"{\"}" \o "\n" \o "{\"d\":{\"e\":\"{\\\\\\\"}\"}}"
  /\ split.objects = << "{\"b\":\"\\\"{\"}", "{\"d\":{\"e\":\"{\\\\\\\"}\"}}" >>

\* C28: the brace depth of the scan is never negative.
C28_DepthNeverNegative == split.st.depth >= 0

\* C28, second half: the objects after a stray brace are separate segments.
C28_StrayBraceSplit ==
  (split.phase = "returned" /\ split.text = "} {\"a\":1} {\"b\":2}")
    => \E i \in 1..Len(split.objects), j \in 1..Len(split.objects) :
         /\ i < j
         /\ split.objects[i] = "{\"a\":1}"
         /\ split.objects[j] = "{\"b\":2}"

(***************************************************************************)
(* runAnalysis (runAnalysis.ts)                                            *)
(***************************************************************************)

\* The entry is the analysis of the object obj on its own.
AnalysisOf(entry, obj) ==
  /\ RequestEvaluations[obj].outcome = "return"
  /\ Content(entry.analysis) = NewObject(0, RequestEvaluations[obj].body)
  /\ entry.issues = LegacyIssues(RequestEvaluations[obj].body.issues)

\* The call returned one entry per object of parts, in their order.
EntryPerObject(parts) ==
  /\ bulk.outcome = "return"
  /\ Len(bulk.entries) = Len(parts)
  /\ \A i \in 1..Len(parts) : AnalysisOf(bulk.entries[i], parts[i])

\* C21: for an input of n objects separated by whitespace, or a JSON array of
\* n objects, runAnalysis returns exactly n entries, in input order, each the
\* analysis of one of the objects on its own.
C21_MultiRequest ==
  \A parts \in BulkSequences :
    (bulk.called /\ bulk.input \in {Spaced(parts), Arrayed(parts)})
      => EntryPerObject(parts)

\* C21 on the later definition of splitJsonObjects and objects whose
\* analysis returns.
C21_LaterDefinitionReturned ==
  \A parts \in BulkSequences :
    (/\ bulk.called /\ bulk.input \in {Spaced(parts), Arrayed(parts)}
     /\ (bulk.definition = 2 \/ bulk.input = Spaced(parts))
     /\ \A i \in 1..Len(parts) : RequestEvaluations[parts[i]].outcome = "return")
      => EntryPerObject(parts)

(***************************************************************************)
(* The locator                                                             *)
(***************************************************************************)

\* An object with a string id and an array imp.
Qualifies(v) ==
  IsObject(v) /\ TypeOf(Get(v, "id")) = "string" /\ IsArray(Get(v, "imp"))

\* The values of a parsed document in depth-first pre-order, the document
\* itself first; the members of an object are visited in insertion order, or
\* in the order Object.keys enumerates them.
RECURSIVE PreOrder(_, _)
RECURSIVE PreOrderAll(_, _, _)
PreOrderAll(kids, i, enumerated) ==
  IF i > Len(kids) THEN <<>>
  ELSE PreOrder(kids[i], enumerated) \o PreOrderAll(kids, i + 1, enumerated)

PreOrder(v, enumerated) ==
  <<v>> \o
  (CASE IsObject(v) ->
          PreOrderAll([i \in 1..Len(v.o) |->
                         (IF enumerated THEN OwnMembers(v.o) ELSE v.o)[i][2]],
                      1, enumerated)
     [] IsArray(v) -> PreOrderAll(v.a, 1, enumerated)
     [] OTHER -> <<>>)

FirstQualifying(nodes) ==
  IF \E i \in 1..Len(nodes) : Qualifies(nodes[i])
  THEN nodes[CHOOSE i \in 1..Len(nodes) :
               Qualifies(nodes[i]) /\ \A j \in 1..(i - 1) : ~Qualifies(nodes[j])]
  ELSE JNull

\* For each text that parses, the first qualifying object in either order.
FirstByOrder ==
  [jsonText \in Texts \cup RequestTexts \cup CallerTexts |->
    [enumerated \in BOOLEAN |->
      IF Requests[jsonText].valid
      THEN FirstQualifying(PreOrder(Requests[jsonText].value, enumerated))
      ELSE JNull]]

\* The latest call handed the rules the root first, which is null or an
\* object with a string id and an array imp; first is what the claim says
\* the search yields, null when no object qualifies.
LocatedAs(first) ==
  /\ run.ctx.root = first
  /\ (first = JNull <=> \A i \in 1..Len(PreOrder(Requests[Last.jsonText].value, TRUE)) :
                          ~Qualifies(PreOrder(Requests[Last.jsonText].value, TRUE)[i]))
  /\ Truthy(run.ctx.root) => Qualifies(run.ctx.root)

\* The latest call parsed its text, searched it and built its context.
Searched == Called /\ run.built /\ ValidJSON(Last.jsonText)

\* C23 as stated: findBidRequest returns the first object, in depth-first
\* pre-order over keys in insertion order, that has a string id and an array
\* imp, and no root exactly when there is none.
C23_InsertionOrder == Searched => LocatedAs(FirstByOrder[Last.jsonText][FALSE])

\* C23 amended: the pre-order visits the keys in the order Object.keys
\* enumerates them: integer-index keys in ascending numeric order, then the
\* other keys in insertion order.
C23_EnumerationOrder == Searched => LocatedAs(FirstByOrder[Last.jsonText][TRUE])

\* C23 witness: a document whose second member has an integer-index key was
\* searched, and the request under that key was located.
C23_Witness ==
  /\ Searched
  /\ Last.jsonText = "{\"x\":{\"id\":\"a\",\"imp\":[]},\"0\":{\"id\":\"b\",\"imp\":[]}}"
  /\ Get(run.ctx.root, "id") = JStr("b")

(***************************************************************************)
(* Per-impression rules                                                    *)
(***************************************************************************)

\* The rules of impressionRules and videoRules whose validate is one
\* predicate over each impression (root.imp.every / !root.imp.some).
PerImpressionRules ==
  { "Core-Imp-002", "Core-Imp-003", "Core-Imp-004", "Core-Imp-005", "Core-Imp-006",
    "EQ-Imp-036", "EQ-Imp-048", "EQ-GOOD-002",
    "video-mimes", "video-durations", "EQ-Video-037", "EQ-Video-038", "EQ-Video-039",
    "EQ-Video-040", "EQ-Video-041", "EQ-Video-042", "EQ-Video-043", "EQ-Video-044",
    "EQ-Video-045", "EQ-Video-046", "EQ-Video-047", "EQ-Video-049", "EQ-Video-050" }

IssueCount(issues, id) == Cardinality({i \in 1..Len(issues) : issues[i].id = id})

\* The impression violates the rule's predicate: the rule fails on the
\* request that holds this impression alone.
Violates(body, id) == IssueCount(RequestEvaluations[OneImp(body)].body.issues, id) > 0

\* C24: a per-impression rule passes exactly when every impression satisfies
\* its predicate, and when one or more impressions violate it the result
\* holds exactly one issue for the rule.
C24_AllOrNothing ==
  \A a \in ImpBodies, b \in ImpBodies :
    (Called /\ Last.jsonText = TwoImps(a, b))
      => /\ Last.outcome = "return"
         /\ \A id \in PerImpressionRules :
              IssueCount(Last.result.issues, id)
                = IF Violates(a, id) \/ Violates(b, id) THEN 1 ELSE 0

\* C24 witness: two video impressions that both lack playbackmethod were
\* analysed; the result holds one EQ-Video-038 issue.
C24_Witness ==
  /\ Called /\ Last.outcome = "return"
  /\ \E a \in ImpBodies, b \in ImpBodies :
       /\ a # b /\ Last.jsonText = TwoImps(a, b)
       /\ Violates(a, "EQ-Video-038") /\ Violates(b, "EQ-Video-038")
  /\ IssueCount(Last.result.issues, "EQ-Video-038") = 1

(***************************************************************************)
(* The context                                                             *)
(***************************************************************************)

\* The root of the context is an object whose imp is an array.
RootWithImps(ctx) == Truthy(ctx.root) /\ IsArray(Get(ctx.root, "imp"))

\* The rule pass called the validate function of Audio-A-001, which is gated
\* on inventory.has('audio') alone and reads root.imp.
ValidatedAudio ==
  \E i \in 1..Len(run.trace) :
    run.trace[i].op = "validate" /\ run.trace[i].id = "Audio-A-001"

\* C25: in every context analyse builds, a non-empty inventory implies a
\* non-null root whose imp is an array, so a rule gated only on inventory
\* membership is validated on such a root.
C25_ContextInvariant ==
  (Called /\ run.built)
    => /\ run.ctx.inventory # <<>> => RootWithImps(run.ctx)
       /\ ValidatedAudio => RootWithImps(run.ctx)

\* C25 witness: a call built a context with audio in its inventory and the
\* rule pass validated Audio-A-001 on it.
C25_Witness ==
  /\ Called /\ run.built
  /\ \E i \in 1..Len(run.ctx.inventory) : run.ctx.inventory[i] = "audio"
  /\ ValidatedAudio

(***************************************************************************)
(* Calls that throw and the cache                                          *)
(***************************************************************************)

\* The step is a call of analyse that throws.
ThrowingCall ==
  /\ Len(history') = Len(history) + 1
  /\ history'[Len(history')].outcome = "throw"

\* The text of the latest call was submitted before, and every earlier call
\* with it threw.
ThrewBefore ==
  /\ Called
  /\ \E i \in 1..(Len(history) - 1) : history[i].jsonText = Last.jsonText
  /\ \A i \in 1..(Len(history) - 1) :
       history[i].jsonText = Last.jsonText => history[i].outcome = "throw"

\* C26: a call that throws leaves the cache as it was, no entry added and
\* none changed, so a later call with the same text is evaluated again.
C26_ThrowLeavesCache ==
  /\ [][ThrowingCall => parseCache' = parseCache]_vars
  /\ [](ThrewBefore => ~run.hit)

\* C26 witness: with an entry in the cache, a text was analysed twice and
\* threw both times; the cache holds the one entry it held before.
C26_Witness ==
  /\ Len(history) = 3
  /\ history[1].outcome = "return"
  /\ history[2].outcome = "throw"
  /\ ThrewBefore /\ Last.outcome = "throw"
  /\ DOMAIN parseCache = {history[1].jsonText}

(***************************************************************************)
(* The analysis page                                                       *)
(***************************************************************************)

\* The result is the analysis of the text.
AnalysisOfText(result, text) ==
  /\ text \in PageTexts
  /\ RequestEvaluations[text].outcome = "return"
  /\ Content(result) = NewObject(0, RequestEvaluations[text].body)

\* C29: whenever analysisResult is non-null it is the analysis of the
\* current jsonText, under every interleaving of edits, example loads,
\* clears and the delayed completion of an analysis.
C29_ResultFreshness ==
  page.state.analysisResult # JNull
    => AnalysisOfText(page.state.analysisResult, page.state.jsonText)

\* C30: every START_ANALYSIS is eventually followed by a state with
\* isLoading false.
C30_LoadingEnds == page.state.isLoading ~> ~page.state.isLoading

\* C30 in a form a finite run decides: while the page is loading, a callback
\* that will end the loading is pending.
C30_LoadingHasTimer == page.state.isLoading => page.timers # <<>>

\* The six properties analyse gives a summary, and a summary that holds
\* exactly these with the values the engine derives from the text.
SummaryFields ==
  {"requestType", "mediaFormats", "impressions", "platform", "deviceType", "geo"}

EngineDerived(summary, text) ==
  /\ DOMAIN summary = SummaryFields
  /\ \A k \in SummaryFields : summary[k] = RequestEvaluations[text].body.summary[k]

\* A call that returned a result the page went on to enhance.
EnhancedBefore(i) ==
  \E j \in 1..(i - 1) :
    /\ history[j].jsonText = history[i].jsonText
    /\ history[j].outcome = "return"
    /\ history[j].result.error \in {Absent, ""}

\* C27: results are insulated from the page: once the page has enhanced the
\* summary of a result analyse returned, every later analyse call with the
\* same text returns a summary holding only the six engine-derived
\* properties with the engine-derived values.
C27_ResultInsulated ==
  \A i \in 1..Len(history) :
    history[i].outcome = "return" /\ EnhancedBefore(i)
      => EngineDerived(history[i].result.summary, history[i].jsonText)

\* The first result returned for a text does hold the engine's summary.
C27_FirstResultEngineDerived ==
  \A i \in 1..Len(history) :
    history[i].outcome = "return" /\ history[i].result.error \in {Absent, ""}
      /\ (\A j \in 1..(i - 1) : history[j].jsonText # history[i].jsonText)
      => EngineDerived(history[i].result.summary, history[i].jsonText)

====
